---- MODULE Spec2Model ----
(***************************************************************************)
(* The multiple-choice proposal module of a DAO (cw-proposal-multiple):    *)
(* its configuration, proposal store, ballots, hook registries, the        *)
(* sub-messages it hands to the host and the replies the host hands back.  *)
(* One action per entry point of contract.rs; a call that returns an error *)
(* is rolled back by the host, so it changes nothing but the observed      *)
(* result of the call.                                                     *)
(***************************************************************************)
EXTENDS Integers, Sequences, FiniteSets, TLC

VARIABLES
    config,          \* CONFIG item
    proposals,       \* PROPOSALS map: id -> MultipleChoiceProposal
    ballots,         \* BALLOTS map: <<id, voter>> -> Ballot
    proposal_count,  \* PROPOSAL_COUNT item
    proposal_hooks,  \* PROPOSAL_HOOKS item: ordered subscriber list
    vote_hooks,      \* VOTE_HOOKS item: ordered subscriber list
    bal,             \* token balances held by the host (bank / cw20)
    refunds,         \* id -> the deposit transfers paid out by calls on that proposal
    now,             \* env.block (height and time advance together)
    inflight,        \* reply-on-error sub-messages of the last response not yet run
    tx_start,        \* the store as it was before the running transaction, if any
    attempts,        \* id -> number of times the winning batch was handed to the DAO
    result,          \* the response of the last call that was not rolled back
    OWNER,           \* OWNER item of the named-groups registry (cw-named-groups)
    GROUPS           \* GROUPS of the named-groups registry: its two key indexes

store == <<config, proposals, ballots, proposal_count, proposal_hooks, vote_hooks, bal,
           refunds>>
named_groups == <<OWNER, GROUPS>>
vars == <<config, proposals, ballots, proposal_count, proposal_hooks, vote_hooks, bal,
          refunds, now, inflight, tx_start, attempts, result, OWNER, GROUPS>>

-----------------------------------------------------------------------------
(* Bounds of the explored environment *)

MaxProposals == 1
MaxTime == 3
MaxAttempts == 2
MaxReplyValue == 8
MaxIds == 3

Senders == {"dao", "dao2", "alice", "bob"}
HookAddrs == {"h1", "h2"}
Accounts == Senders \cup {"module"}

(* Option<T>: <<>> is None, <<x>> is Some(x) *)
None == <<>>
Some(x) == <<x>>
is_some(o) == Len(o) = 1
unwrap(o) == o[1]

-----------------------------------------------------------------------------
(* The voting-power oracle consulted through the DAO (external collaborator). *)
(* bob leaves the membership at height 2; a silent member holds one unit that *)
(* is never cast.                                                             *)

get_voting_power(addr, height) ==
    CASE addr = "alice" -> 1
      [] addr = "bob" -> IF height < 2 THEN 1 ELSE 0
      [] OTHER -> 0

get_total_power(height) ==
    get_voting_power("alice", height) + get_voting_power("bob", height) + 1

-----------------------------------------------------------------------------
(* Expiration and tally arithmetic (cw_utils, cwd_voting::voting) *)

is_expired(expiration, block) == block >= expiration

after(duration, block) == block + duration

zero(n) == [i \in 1..n |-> 0]

RECURSIVE SumSeq(_)
SumSeq(s) == IF s = <<>> THEN 0 ELSE Head(s) + SumSeq(Tail(s))

total(votes) == SumSeq(votes)

(* option ids are 0-based as in the contract; the tally is indexed from 1 *)
add_vote(votes, vote, weight) == [votes EXCEPT ![vote + 1] = @ + weight]

remove_vote(votes, vote, weight) == [votes EXCEPT ![vote + 1] = @ - weight]

does_vote_count_pass(yes_votes, options, quorum) ==
    IF options = 0 THEN FALSE
    ELSE IF quorum.kind = "majority" THEN yes_votes * 2 > options
    ELSE yes_votes * 100 >= quorum.percent * options

-----------------------------------------------------------------------------
(* Status derivation of a proposal record (proposal.rs) *)

MaxWeight(votes) == CHOOSE m \in {votes[i] : i \in 1..Len(votes)} :
                        \A i \in 1..Len(votes) : votes[i] <= m

calculate_vote_result(prop) ==
    LET top == {i \in 1..Len(prop.votes) : prop.votes[i] = MaxWeight(prop.votes)}
    IN  IF Cardinality(top) > 1
        THEN [kind |-> "Tie", index |-> 0]
        ELSE [kind |-> "SingleWinner", index |-> (CHOOSE i \in top : TRUE) - 1]

is_choice_unbeatable(prop, index) ==
    LET winning == prop.votes[index + 1]
        lower == {prop.votes[i] : i \in 1..Len(prop.votes)} \ {winning}
        remaining == prop.total_power - total(prop.votes)
    IN  IF lower = {} THEN TRUE
        ELSE winning > (CHOOSE m \in lower : \A x \in lower : x <= m) + remaining

is_passed(prop, block) ==
    IF prop.allow_revoting /\ ~is_expired(prop.expiration, block) THEN FALSE
    ELSE IF is_some(prop.min_voting_period)
            /\ ~is_expired(unwrap(prop.min_voting_period), block) THEN FALSE
    ELSE IF does_vote_count_pass(total(prop.votes), prop.total_power,
                                 prop.voting_strategy)
    THEN LET r == calculate_vote_result(prop)
         IN  IF r.kind = "Tie" THEN FALSE
             ELSE IF is_expired(prop.expiration, block) THEN TRUE
             ELSE is_choice_unbeatable(prop, r.index)
    ELSE FALSE

is_rejected(prop, block) ==
    IF prop.allow_revoting /\ ~is_expired(prop.expiration, block) THEN FALSE
    ELSE LET r == calculate_vote_result(prop)
         IN  IF r.kind = "Tie"
             THEN is_expired(prop.expiration, block)
                  \/ prop.total_power = total(prop.votes)
             ELSE /\ is_expired(prop.expiration, block)
                  /\ ~does_vote_count_pass(total(prop.votes), prop.total_power,
                                           prop.voting_strategy)

current_status(prop, block) ==
    IF prop.status = "open" /\ is_passed(prop, block) THEN "passed"
    ELSE IF prop.status = "open"
            /\ (is_expired(prop.expiration, block) \/ is_rejected(prop, block))
    THEN "rejected"
    ELSE prop.status

update_status(prop, block) == [prop EXCEPT !.status = current_status(prop, block)]

-----------------------------------------------------------------------------
(* Reply identifiers (cwd_voting::reply): the low bits tag the cause *)

BITS_RESERVED_FOR_REPLY_TYPE == 3
FAILED_PROPOSAL_EXECUTION_MASK == 0
FAILED_PROPOSAL_HOOK_MASK == 1
FAILED_VOTE_HOOK_MASK == 2

mask_proposal_execution_proposal_id(proposal_id) ==
    proposal_id * (2 ^ BITS_RESERVED_FOR_REPLY_TYPE) + FAILED_PROPOSAL_EXECUTION_MASK

mask_proposal_hook_index(index) ==
    index * (2 ^ BITS_RESERVED_FOR_REPLY_TYPE) + FAILED_PROPOSAL_HOOK_MASK

mask_vote_hook_index(index) ==
    index * (2 ^ BITS_RESERVED_FOR_REPLY_TYPE) + FAILED_VOTE_HOOK_MASK

TaggedReplyId(id) ==
    LET reply_type == id % (2 ^ BITS_RESERVED_FOR_REPLY_TYPE)
        after_shift == id \div (2 ^ BITS_RESERVED_FOR_REPLY_TYPE)
    IN  CASE reply_type = FAILED_PROPOSAL_EXECUTION_MASK ->
               [kind |-> "FailedProposalExecution", value |-> after_shift]
          [] reply_type = FAILED_PROPOSAL_HOOK_MASK ->
               [kind |-> "FailedProposalHook", value |-> after_shift]
          [] reply_type = FAILED_VOTE_HOOK_MASK ->
               [kind |-> "FailedVoteHook", value |-> after_shift]
          [] OTHER -> [kind |-> "UnknownReplyId", value |-> id]

-----------------------------------------------------------------------------
(* Messages of a response. reply_id >= 0 marks a sub-message dispatched    *)
(* with reply-on-error; reply_id = -1 a plain message, whose failure fails *)
(* the whole call.                                                         *)

TransferMsg(from, to, amount) ==
    [kind |-> "transfer", from |-> from, to |-> to, amount |-> amount,
     proposal_id |-> 0, payload |-> <<>>, reply_id |-> -1]

HookMsg(kind, to, proposal_id, reply_id) ==
    [kind |-> kind, from |-> "module", to |-> to, amount |-> 0,
     proposal_id |-> proposal_id, payload |-> <<>>, reply_id |-> reply_id]

ExecuteProposalHookMsg(to, proposal_id, msgs, reply_id) ==
    [kind |-> "execute_proposal_hook", from |-> "module", to |-> to, amount |-> 0,
     proposal_id |-> proposal_id, payload |-> msgs, reply_id |-> reply_id]

(* cwd_proposal_hooks, cwd_vote_hooks: one reply-on-error sub-message per    *)
(* subscriber, tagged with the subscriber's index in the registry            *)
new_proposal_hooks(hooks, proposal_id) ==
    [i \in 1..Len(hooks) |->
        HookMsg("new_proposal", hooks[i], proposal_id, mask_proposal_hook_index(i - 1))]

proposal_status_changed_hooks(hooks, proposal_id, old_status, new_status) ==
    IF old_status = new_status THEN <<>>
    ELSE [i \in 1..Len(hooks) |->
            HookMsg("status_changed", hooks[i], proposal_id,
                    mask_proposal_hook_index(i - 1))]

new_vote_hooks(hooks, proposal_id) ==
    [i \in 1..Len(hooks) |->
        HookMsg("vote", hooks[i], proposal_id, mask_vote_hook_index(i - 1))]

(* cwd_voting::deposit *)
get_deposit_msg(deposit_info, contract, sender) ==
    IF is_some(deposit_info)
    THEN <<TransferMsg(sender, contract, unwrap(deposit_info).amount)>>
    ELSE <<>>

get_return_deposit_msg(deposit_info, receiver) ==
    <<TransferMsg("module", receiver, deposit_info.amount)>>

-----------------------------------------------------------------------------
(* Results of a handler: the store as the handler has written it, with the *)
(* messages of the response or with the error that ended it; an error      *)
(* raised after a write carries that write                                 *)

Ok(msgs) ==
    [err |-> "ok", config |-> config, proposals |-> proposals, ballots |-> ballots,
     proposal_count |-> proposal_count, proposal_hooks |-> proposal_hooks,
     vote_hooks |-> vote_hooks, msgs |-> msgs, note |-> ""]

Err(e) == [Ok(<<>>) EXCEPT !.err = e]

-----------------------------------------------------------------------------
(* Validation of configuration input (instantiate, execute_update_config) *)

strategy_valid(voting_strategy) ==
    voting_strategy.kind = "majority"
    \/ (voting_strategy.percent > 0 /\ voting_strategy.percent <= 100)

into_checked(deposit_info) ==
    IF ~is_some(deposit_info) THEN "ok"
    ELSE IF unwrap(deposit_info).amount = 0 THEN "ZeroDeposit"
    ELSE IF unwrap(deposit_info).denom = "unknown" THEN "InvalidDenom"
    ELSE "ok"

validate_voting_period(min_voting_period, max_voting_period) ==
    IF is_some(min_voting_period) /\ unwrap(min_voting_period) > max_voting_period
    THEN "InvalidMinVotingPeriod"
    ELSE "ok"

(* a validation that accepts any deposit *)
config_error_unchecked_deposit(msg) ==
    IF ~strategy_valid(msg.voting_strategy) THEN "InvalidQuorum"
    ELSE validate_voting_period(msg.min_voting_period, msg.max_voting_period)

config_error(msg) ==
    IF ~strategy_valid(msg.voting_strategy) THEN "InvalidQuorum"
    ELSE IF into_checked(msg.deposit_info) # "ok" THEN into_checked(msg.deposit_info)
    ELSE validate_voting_period(msg.min_voting_period, msg.max_voting_period)

instantiate(sender, msg) ==
    IF config_error(msg) # "ok" THEN [err |-> config_error(msg), config |-> msg]
    ELSE [err |-> "ok", config |-> [msg EXCEPT !.dao = sender]]

(* an UpdateConfig that admits the DAO named in the message *)
execute_update_config_by_named_dao(sender, msg) ==
    IF sender # msg.dao THEN Err("Unauthorized")
    ELSE IF config_error(msg) # "ok" THEN Err(config_error(msg))
    ELSE [Ok(<<>>) EXCEPT !.config = msg]

execute_update_config(sender, msg) ==
    IF sender # config.dao THEN Err("Unauthorized")
    ELSE IF config_error(msg) # "ok" THEN Err(config_error(msg))
    ELSE [Ok(<<>>) EXCEPT !.config = msg]

-----------------------------------------------------------------------------
(* Propose *)

advance_proposal_id_skipping == proposal_count + 2

advance_proposal_id == proposal_count + 1

MAX_PROPOSAL_SIZE == 30000

options_into_checked(options) == IF Len(options) < 2 THEN "WrongNumberOfChoices" ELSE "ok"

new_proposal(sender, options) ==
    [proposer |-> sender,
     start_height |-> now,
     min_voting_period |->
        IF is_some(config.min_voting_period)
        THEN Some(after(unwrap(config.min_voting_period), now)) ELSE None,
     expiration |-> after(config.max_voting_period, now),
     voting_strategy |-> config.voting_strategy,
     total_power |-> get_total_power(now),
     status |-> "open",
     votes |-> zero(Len(options)),
     allow_revoting |-> config.allow_revoting,
     deposit_info |-> config.deposit_info,
     choices |-> options]

(* a Propose that asks for voting power whatever open_proposal_submission *)
execute_propose_members_only(sender, options, proposal_size, active) ==
    IF ~active THEN Err("InactiveDao")
    ELSE IF get_voting_power(sender, now) = 0 THEN Err("MustHaveVotingPower")
    ELSE IF options_into_checked(options) # "ok" THEN Err(options_into_checked(options))
    ELSE LET proposal == update_status(new_proposal(sender, options), now)
             id == advance_proposal_id
         IN  IF proposal_size > MAX_PROPOSAL_SIZE
             THEN [Err("ProposalTooLarge") EXCEPT !.proposal_count = id]
             ELSE [Ok(get_deposit_msg(config.deposit_info, "module", sender)
                      \o new_proposal_hooks(proposal_hooks, id))
                   EXCEPT !.proposal_count = id,
                          !.proposals = (id :> proposal) @@ proposals]

execute_propose(sender, options, proposal_size, active) ==
    IF ~active THEN Err("InactiveDao")
    ELSE IF ~config.open_proposal_submission /\ get_voting_power(sender, now) = 0
    THEN Err("MustHaveVotingPower")
    ELSE IF options_into_checked(options) # "ok" THEN Err(options_into_checked(options))
    ELSE LET proposal == update_status(new_proposal(sender, options), now)
             id == advance_proposal_id
         IN  IF proposal_size > MAX_PROPOSAL_SIZE
             THEN [Err("ProposalTooLarge") EXCEPT !.proposal_count = id]
             ELSE [Ok(get_deposit_msg(config.deposit_info, "module", sender)
                      \o new_proposal_hooks(proposal_hooks, id))
                   EXCEPT !.proposal_count = id,
                          !.proposals = (id :> proposal) @@ proposals]

-----------------------------------------------------------------------------
(* Vote *)

vote_in_range(prop, vote) == vote < Len(prop.choices)

votable_by_stored_status(prop, block) == prop.status = "open"

votable_always(prop, block) == TRUE

votable(prop, block) == current_status(prop, block) = "open"

(* a revote that leaves the replaced ballot's weight in the tally *)
ballot_update_keeps_old_weight(prop, has_ballot, current_ballot, vote, vote_power) ==
    IF has_ballot /\ ~prop.allow_revoting
    THEN [err |-> "AlreadyVoted", votes |-> prop.votes, ballot |-> current_ballot]
    ELSE IF has_ballot /\ current_ballot.vote = vote
    THEN [err |-> "AlreadyCast", votes |-> prop.votes, ballot |-> current_ballot]
    ELSE [err |-> "ok", votes |-> prop.votes,
          ballot |-> [power |-> vote_power, vote |-> vote]]

(* a closure that replaces a ballot whether or not revoting is allowed *)
ballot_update_always_replacing(prop, has_ballot, current_ballot, vote, vote_power) ==
    IF has_ballot /\ current_ballot.vote = vote
    THEN [err |-> "AlreadyCast", votes |-> prop.votes, ballot |-> current_ballot]
    ELSE [err |-> "ok",
          votes |-> IF has_ballot
                    THEN remove_vote(prop.votes, current_ballot.vote, current_ballot.power)
                    ELSE prop.votes,
          ballot |-> [power |-> vote_power, vote |-> vote]]

(* a closure that takes the same choice again as a revote *)
ballot_update_recasting(prop, has_ballot, current_ballot, vote, vote_power) ==
    IF has_ballot /\ ~prop.allow_revoting
    THEN [err |-> "AlreadyVoted", votes |-> prop.votes, ballot |-> current_ballot]
    ELSE [err |-> "ok",
          votes |-> IF has_ballot
                    THEN remove_vote(prop.votes, current_ballot.vote, current_ballot.power)
                    ELSE prop.votes,
          ballot |-> [power |-> vote_power, vote |-> vote]]

(* a closure that asks the configuration of the moment about revoting *)
ballot_update_by_config(prop, has_ballot, current_ballot, vote, vote_power) ==
    IF has_ballot
    THEN IF config.allow_revoting
         THEN IF current_ballot.vote = vote
              THEN [err |-> "AlreadyCast", votes |-> prop.votes, ballot |-> current_ballot]
              ELSE [err |-> "ok",
                    votes |-> remove_vote(prop.votes, current_ballot.vote,
                                          current_ballot.power),
                    ballot |-> [power |-> vote_power, vote |-> vote]]
         ELSE [err |-> "AlreadyVoted", votes |-> prop.votes, ballot |-> current_ballot]
    ELSE [err |-> "ok", votes |-> prop.votes,
          ballot |-> [power |-> vote_power, vote |-> vote]]

(* the closure handed to BALLOTS.update: the ballot to store, and the tally *)
(* after the removal of a replaced ballot                                   *)
ballot_update(prop, has_ballot, current_ballot, vote, vote_power) ==
    IF has_ballot
    THEN IF prop.allow_revoting
         THEN IF current_ballot.vote = vote
              THEN [err |-> "AlreadyCast", votes |-> prop.votes, ballot |-> current_ballot]
              ELSE [err |-> "ok",
                    votes |-> remove_vote(prop.votes, current_ballot.vote,
                                          current_ballot.power),
                    ballot |-> [power |-> vote_power, vote |-> vote]]
         ELSE [err |-> "AlreadyVoted", votes |-> prop.votes, ballot |-> current_ballot]
    ELSE [err |-> "ok", votes |-> prop.votes,
          ballot |-> [power |-> vote_power, vote |-> vote]]

(* a Vote that weighs the voter by the power held at the block of the vote *)
execute_vote_power_at_vote(sender, proposal_id, vote) ==
    IF proposal_id \notin DOMAIN proposals THEN Err("NoSuchProposal")
    ELSE LET prop == proposals[proposal_id]
             key == <<proposal_id, sender>>
             vote_power == get_voting_power(sender, now)
             upd == ballot_update(prop, key \in DOMAIN ballots,
                                  IF key \in DOMAIN ballots THEN ballots[key]
                                  ELSE [power |-> 0, vote |-> 0],
                                  vote, vote_power)
             old_status == prop.status
             voted == update_status(
                        [prop EXCEPT !.votes = add_vote(upd.votes, vote, vote_power)], now)
         IN  IF ~vote_in_range(prop, vote) THEN Err("InvalidVote")
             ELSE IF ~votable(prop, now) THEN Err("NotOpen")
             ELSE IF vote_power = 0 THEN Err("NotRegistered")
             ELSE IF upd.err # "ok" THEN Err(upd.err)
             ELSE [Ok(proposal_status_changed_hooks(proposal_hooks, proposal_id,
                                                    old_status, voted.status)
                      \o new_vote_hooks(vote_hooks, proposal_id))
                   EXCEPT !.note = IF key \in DOMAIN ballots THEN "revote" ELSE "",
                          !.ballots = (key :> upd.ballot) @@ ballots,
                          !.proposals = [proposals EXCEPT ![proposal_id] = voted]]

(* a Vote that never reports a change of status *)
execute_vote_silent_status(sender, proposal_id, vote) ==
    IF proposal_id \notin DOMAIN proposals THEN Err("NoSuchProposal")
    ELSE LET prop == proposals[proposal_id]
             key == <<proposal_id, sender>>
             vote_power == get_voting_power(sender, prop.start_height)
             upd == ballot_update(prop, key \in DOMAIN ballots,
                                  IF key \in DOMAIN ballots THEN ballots[key]
                                  ELSE [power |-> 0, vote |-> 0],
                                  vote, vote_power)
             voted == update_status(
                        [prop EXCEPT !.votes = add_vote(upd.votes, vote, vote_power)], now)
         IN  IF ~vote_in_range(prop, vote) THEN Err("InvalidVote")
             ELSE IF ~votable(prop, now) THEN Err("NotOpen")
             ELSE IF vote_power = 0 THEN Err("NotRegistered")
             ELSE IF upd.err # "ok" THEN Err(upd.err)
             ELSE [Ok(new_vote_hooks(vote_hooks, proposal_id))
                   EXCEPT !.note = IF key \in DOMAIN ballots THEN "revote" ELSE "",
                          !.ballots = (key :> upd.ballot) @@ ballots,
                          !.proposals = [proposals EXCEPT ![proposal_id] = voted]]

(* a Vote that recomputes the status before it adds the new weight *)
execute_vote_status_first(sender, proposal_id, vote) ==
    IF proposal_id \notin DOMAIN proposals THEN Err("NoSuchProposal")
    ELSE LET prop == proposals[proposal_id]
             key == <<proposal_id, sender>>
             vote_power == get_voting_power(sender, prop.start_height)
             upd == ballot_update(prop, key \in DOMAIN ballots,
                                  IF key \in DOMAIN ballots THEN ballots[key]
                                  ELSE [power |-> 0, vote |-> 0],
                                  vote, vote_power)
             old_status == prop.status
             removed == update_status([prop EXCEPT !.votes = upd.votes], now)
             voted == [removed EXCEPT !.votes = add_vote(upd.votes, vote, vote_power)]
         IN  IF ~vote_in_range(prop, vote) THEN Err("InvalidVote")
             ELSE IF ~votable(prop, now) THEN Err("NotOpen")
             ELSE IF vote_power = 0 THEN Err("NotRegistered")
             ELSE IF upd.err # "ok" THEN Err(upd.err)
             ELSE [Ok(proposal_status_changed_hooks(proposal_hooks, proposal_id,
                                                    old_status, voted.status)
                      \o new_vote_hooks(vote_hooks, proposal_id))
                   EXCEPT !.note = IF key \in DOMAIN ballots THEN "revote" ELSE "",
                          !.ballots = (key :> upd.ballot) @@ ballots,
                          !.proposals = [proposals EXCEPT ![proposal_id] = voted]]

execute_vote(sender, proposal_id, vote) ==
    IF proposal_id \notin DOMAIN proposals THEN Err("NoSuchProposal")
    ELSE LET prop == proposals[proposal_id]
             key == <<proposal_id, sender>>
             vote_power == get_voting_power(sender, prop.start_height)
             upd == ballot_update(prop, key \in DOMAIN ballots,
                                  IF key \in DOMAIN ballots THEN ballots[key]
                                  ELSE [power |-> 0, vote |-> 0],
                                  vote, vote_power)
             old_status == prop.status
             voted == update_status(
                        [prop EXCEPT !.votes = add_vote(upd.votes, vote, vote_power)], now)
         IN  IF ~vote_in_range(prop, vote) THEN Err("InvalidVote")
             ELSE IF ~votable(prop, now) THEN Err("NotOpen")
             ELSE IF vote_power = 0 THEN Err("NotRegistered")
             ELSE IF upd.err # "ok" THEN Err(upd.err)
             ELSE [Ok(proposal_status_changed_hooks(proposal_hooks, proposal_id,
                                                    old_status, voted.status)
                      \o new_vote_hooks(vote_hooks, proposal_id))
                   EXCEPT !.note = IF key \in DOMAIN ballots THEN "revote" ELSE "",
                          !.ballots = (key :> upd.ballot) @@ ballots,
                          !.proposals = [proposals EXCEPT ![proposal_id] = voted]]

-----------------------------------------------------------------------------
(* Execute *)

may_execute_anyone(sender) == TRUE

may_execute(sender) ==
    ~config.only_members_execute \/ get_voting_power(sender, now) # 0

executable_before_expiration(prop) ==
    prop.status = "passed" /\ ~is_expired(prop.expiration, now)

executable_always(prop) == TRUE

executable_unless_rejected(prop) == prop.status # "rejected"

executable_or_failed(prop) == prop.status \in {"passed", "execution_failed"}

executable(prop) == prop.status = "passed"

(* a refund on execution that pays a forfeited deposit to the DAO that     *)
(* instantiated the module                                                 *)
execute_refund_to_first_dao(prop) ==
    IF is_some(prop.deposit_info)
    THEN IF unwrap(prop.deposit_info).refund_policy = "Never"
         THEN get_return_deposit_msg(unwrap(prop.deposit_info), "dao")
         ELSE get_return_deposit_msg(unwrap(prop.deposit_info), prop.proposer)
    ELSE <<>>

(* a refund on execution by the deposit configuration of the moment *)
execute_refund_by_config(prop) ==
    IF is_some(config.deposit_info)
    THEN IF unwrap(config.deposit_info).refund_policy = "Never"
         THEN get_return_deposit_msg(unwrap(config.deposit_info), config.dao)
         ELSE get_return_deposit_msg(unwrap(config.deposit_info), prop.proposer)
    ELSE <<>>

(* the refund on execution: to the DAO under Never, else to the proposer *)
execute_refund_message(prop) ==
    IF is_some(prop.deposit_info)
    THEN IF unwrap(prop.deposit_info).refund_policy = "Never"
         THEN get_return_deposit_msg(unwrap(prop.deposit_info), config.dao)
         ELSE get_return_deposit_msg(unwrap(prop.deposit_info), prop.proposer)
    ELSE <<>>

(* a batch that is dispatched for an empty list of messages as well *)
execute_response_even_empty(proposal_id, winning_choice) ==
    IF is_some(winning_choice.msgs)
    THEN IF config.close_proposal_on_execution_failure
         THEN <<ExecuteProposalHookMsg(config.dao, proposal_id,
                    unwrap(winning_choice.msgs),
                    mask_proposal_execution_proposal_id(proposal_id))>>
         ELSE <<ExecuteProposalHookMsg(config.dao, proposal_id,
                    unwrap(winning_choice.msgs), -1)>>
    ELSE <<>>

(* a batch whose reply id is the bare proposal id *)
execute_response_unmasked(proposal_id, winning_choice) ==
    IF is_some(winning_choice.msgs) /\ unwrap(winning_choice.msgs) # <<>>
    THEN <<ExecuteProposalHookMsg(config.dao, proposal_id, unwrap(winning_choice.msgs),
               IF config.close_proposal_on_execution_failure THEN proposal_id ELSE -1)>>
    ELSE <<>>

(* a batch that is always dispatched with reply-on-error *)
execute_response_always_sub(proposal_id, winning_choice) ==
    IF is_some(winning_choice.msgs) /\ unwrap(winning_choice.msgs) # <<>>
    THEN <<ExecuteProposalHookMsg(config.dao, proposal_id, unwrap(winning_choice.msgs),
               mask_proposal_execution_proposal_id(proposal_id))>>
    ELSE <<>>

(* the winning choice's batch, as a sub-message with reply or a plain message *)
execute_response(proposal_id, winning_choice) ==
    IF is_some(winning_choice.msgs) /\ unwrap(winning_choice.msgs) # <<>>
    THEN IF config.close_proposal_on_execution_failure
         THEN <<ExecuteProposalHookMsg(config.dao, proposal_id,
                    unwrap(winning_choice.msgs),
                    mask_proposal_execution_proposal_id(proposal_id))>>
         ELSE <<ExecuteProposalHookMsg(config.dao, proposal_id,
                    unwrap(winning_choice.msgs), -1)>>
    ELSE <<>>

execute_execute(sender, proposal_id) ==
    IF ~may_execute(sender) THEN Err("Unauthorized")
    ELSE IF proposal_id \notin DOMAIN proposals THEN Err("NoSuchProposal")
    ELSE LET prop == update_status(proposals[proposal_id], now)
             old_status == prop.status
             executed == [prop EXCEPT !.status = "executed"]
             refund_message == execute_refund_message(executed)
             vote_result == calculate_vote_result(executed)
             response == execute_response(proposal_id,
                                          executed.choices[vote_result.index + 1])
             hooks == proposal_status_changed_hooks(proposal_hooks, proposal_id,
                                                    old_status, executed.status)
         IN  IF ~executable(prop) THEN Err("NotPassed")
             ELSE IF vote_result.kind = "Tie"
             THEN [Err("Tie") EXCEPT !.proposals =
                                        [proposals EXCEPT ![proposal_id] = executed]]
             ELSE [Ok(response \o refund_message \o hooks)
                   EXCEPT !.proposals = [proposals EXCEPT ![proposal_id] = executed]]

-----------------------------------------------------------------------------
(* Close *)

(* a Close that asks for a rejected proposal with a single leading choice *)
closable_with_winner(prop) ==
    prop.status = "rejected" /\ calculate_vote_result(prop).kind # "Tie"

closable_unless_open(prop) == prop.status # "open"

closable(prop) == prop.status = "rejected"

(* a closing refund that follows the rule of execution *)
close_refund_like_execute(prop) ==
    IF is_some(prop.deposit_info)
    THEN IF unwrap(prop.deposit_info).refund_policy = "Never"
         THEN get_return_deposit_msg(unwrap(prop.deposit_info), config.dao)
         ELSE get_return_deposit_msg(unwrap(prop.deposit_info), prop.proposer)
    ELSE <<>>

(* a closing refund of all that the module holds *)
close_refund_whole_escrow(prop) ==
    IF is_some(prop.deposit_info)
    THEN IF unwrap(prop.deposit_info).refund_policy = "Always"
         THEN <<TransferMsg("module", prop.proposer, bal["module"])>>
         ELSE <<TransferMsg("module", config.dao, bal["module"])>>
    ELSE <<>>

(* the refund on closing: to the proposer under Always, else to the DAO *)
close_refund_message(prop) ==
    IF is_some(prop.deposit_info)
    THEN IF unwrap(prop.deposit_info).refund_policy = "Always"
         THEN get_return_deposit_msg(unwrap(prop.deposit_info), prop.proposer)
         ELSE get_return_deposit_msg(unwrap(prop.deposit_info), config.dao)
    ELSE <<>>

(* a Close under the sender restriction of Execute *)
execute_close_members_only(sender, proposal_id) ==
    IF ~may_execute(sender) THEN Err("Unauthorized")
    ELSE IF proposal_id \notin DOMAIN proposals THEN Err("NotFound")
    ELSE LET prop == update_status(proposals[proposal_id], now)
             old_status == prop.status
             refund_message == close_refund_message(prop)
             closed == [prop EXCEPT !.status = "closed"]
             changed_hooks == proposal_status_changed_hooks(proposal_hooks, proposal_id,
                                                            old_status, closed.status)
         IN  IF ~closable(prop) THEN Err("WrongCloseStatus")
             ELSE [Ok(changed_hooks \o refund_message)
                   EXCEPT !.proposals = [proposals EXCEPT ![proposal_id] = closed]]

execute_close(sender, proposal_id) ==
    IF proposal_id \notin DOMAIN proposals THEN Err("NotFound")
    ELSE LET prop == update_status(proposals[proposal_id], now)
             old_status == prop.status
             refund_message == close_refund_message(prop)
             closed == [prop EXCEPT !.status = "closed"]
             changed_hooks == proposal_status_changed_hooks(proposal_hooks, proposal_id,
                                                            old_status, closed.status)
         IN  IF ~closable(prop) THEN Err("WrongCloseStatus")
             ELSE [Ok(changed_hooks \o refund_message)
                   EXCEPT !.proposals = [proposals EXCEPT ![proposal_id] = closed]]

-----------------------------------------------------------------------------
(* Hook registries (cwd_hooks::Hooks) *)

Contains(hooks, addr) == \E i \in 1..Len(hooks) : hooks[i] = addr

RemoveAt(hooks, index) ==
    [i \in 1..(Len(hooks) - 1) |-> IF i <= index THEN hooks[i] ELSE hooks[i + 1]]

IndexOf(hooks, addr) == (CHOOSE i \in 1..Len(hooks) : hooks[i] = addr) - 1

(* a registry that appends whatever it is given *)
add_hook_unchecked(hooks, addr) == [err |-> "ok", hooks |-> Append(hooks, addr)]

add_hook(hooks, addr) ==
    IF Contains(hooks, addr) THEN [err |-> "HookAlreadyRegistered", hooks |-> hooks]
    ELSE [err |-> "ok", hooks |-> Append(hooks, addr)]

remove_hook(hooks, addr) ==
    IF Contains(hooks, addr)
    THEN [err |-> "ok", hooks |-> RemoveAt(hooks, IndexOf(hooks, addr))]
    ELSE [err |-> "HookNotFound", hooks |-> hooks]

remove_hook_by_index(hooks, index) ==
    IF index < Len(hooks) THEN [err |-> "ok", hooks |-> RemoveAt(hooks, index)]
    ELSE [err |-> "IndexOutOfBounds", hooks |-> hooks]

execute_add_proposal_hook(sender, address) ==
    IF config.dao # sender THEN Err("Unauthorized")
    ELSE IF add_hook(proposal_hooks, address).err # "ok"
    THEN Err(add_hook(proposal_hooks, address).err)
    ELSE [Ok(<<>>) EXCEPT !.proposal_hooks = add_hook(proposal_hooks, address).hooks]

execute_remove_proposal_hook(sender, address) ==
    IF config.dao # sender THEN Err("Unauthorized")
    ELSE IF remove_hook(proposal_hooks, address).err # "ok"
    THEN Err(remove_hook(proposal_hooks, address).err)
    ELSE [Ok(<<>>) EXCEPT !.proposal_hooks = remove_hook(proposal_hooks, address).hooks]

execute_add_vote_hook(sender, address) ==
    IF config.dao # sender THEN Err("Unauthorized")
    ELSE IF add_hook(vote_hooks, address).err # "ok"
    THEN Err(add_hook(vote_hooks, address).err)
    ELSE [Ok(<<>>) EXCEPT !.vote_hooks = add_hook(vote_hooks, address).hooks]

execute_remove_vote_hook(sender, address) ==
    IF config.dao # sender THEN Err("Unauthorized")
    ELSE IF remove_hook(vote_hooks, address).err # "ok"
    THEN Err(remove_hook(vote_hooks, address).err)
    ELSE [Ok(<<>>) EXCEPT !.vote_hooks = remove_hook(vote_hooks, address).hooks]

-----------------------------------------------------------------------------
(* Reply: the host reports a failed reply-on-error sub-message *)

(* a reply that takes note of a failed hook delivery and removes nobody *)
reply_keeping_subscriber(id) ==
    IF TaggedReplyId(id).kind = "FailedProposalExecution"
          /\ TaggedReplyId(id).value \in DOMAIN proposals
    THEN [Ok(<<>>) EXCEPT !.proposals =
             [proposals EXCEPT ![TaggedReplyId(id).value].status = "execution_failed"]]
    ELSE Ok(<<>>)

(* a reply that takes the value of any identifier, whatever its tag, for   *)
(* the proposal whose batch has failed                                     *)
reply_ignoring_tag(id) ==
    IF TaggedReplyId(id).value \in DOMAIN proposals
    THEN [Ok(<<>>) EXCEPT !.proposals =
             [proposals EXCEPT ![TaggedReplyId(id).value].status = "execution_failed"]]
    ELSE Err("NoSuchProposal")

mark_passed_again(prop) == [prop EXCEPT !.status = "passed"]

mark_execution_failed(prop) == [prop EXCEPT !.status = "execution_failed"]

reply(id) ==
    LET repl == TaggedReplyId(id)
    IN  CASE repl.kind = "FailedProposalExecution" ->
               IF repl.value \in DOMAIN proposals
               THEN [Ok(<<>>) EXCEPT !.proposals =
                        [proposals EXCEPT ![repl.value] = mark_execution_failed(@)]]
               ELSE Err("NoSuchProposal")
          [] repl.kind = "FailedProposalHook" ->
               IF remove_hook_by_index(proposal_hooks, repl.value).err # "ok"
               THEN Err(remove_hook_by_index(proposal_hooks, repl.value).err)
               ELSE [Ok(<<>>) EXCEPT !.proposal_hooks =
                        remove_hook_by_index(proposal_hooks, repl.value).hooks]
          [] repl.kind = "FailedVoteHook" ->
               IF remove_hook_by_index(vote_hooks, repl.value).err # "ok"
               THEN Err(remove_hook_by_index(vote_hooks, repl.value).err)
               ELSE [Ok(<<>>) EXCEPT !.vote_hooks =
                        remove_hook_by_index(vote_hooks, repl.value).hooks]
          [] OTHER -> Err("UnknownReplyId")

-----------------------------------------------------------------------------
(* Queries: read-only, answered from the store and the current block *)

(* the default page size of the listing queries (cwd_voting::proposal); its *)
(* value lies outside this module and is kept small here                   *)
DEFAULT_LIMIT == 2

unwrap_or(o, default) == IF is_some(o) THEN unwrap(o) ELSE default

(* the response to a proposal query carries the status of the query's block *)
into_response(prop, block, id) == [id |-> id, proposal |-> update_status(prop, block)]

(* PROPOSALS.range: the stored ids strictly between the bounds, in key order *)
InRange(min, max) ==
    {id \in DOMAIN proposals : (is_some(min) => id > unwrap(min))
                               /\ (is_some(max) => id < unwrap(max))}

RECURSIVE Ascending(_)
Ascending(ids) ==
    IF ids = {} THEN <<>>
    ELSE LET lo == CHOOSE x \in ids : \A y \in ids : x <= y
         IN  <<lo>> \o Ascending(ids \ {lo})

RECURSIVE Descending(_)
Descending(ids) ==
    IF ids = {} THEN <<>>
    ELSE LET hi == CHOOSE x \in ids : \A y \in ids : x >= y
         IN  <<hi>> \o Descending(ids \ {hi})

take(seq, n) == SubSeq(seq, 1, IF n < Len(seq) THEN n ELSE Len(seq))

Responses(ids) == [i \in 1..Len(ids) |-> into_response(proposals[ids[i]], now, ids[i])]

(* a proposal query that hands out the record as stored *)
query_proposal_as_stored(id) ==
    IF id \in DOMAIN proposals
    THEN [err |-> "ok", response |-> <<[id |-> id, proposal |-> proposals[id]]>>]
    ELSE [err |-> "NotFound", response |-> <<>>]

query_proposal(id) ==
    IF id \in DOMAIN proposals
    THEN [err |-> "ok", response |-> <<into_response(proposals[id], now, id)>>]
    ELSE [err |-> "NotFound", response |-> <<>>]

(* a listing that starts at start_after itself *)
query_list_proposals_inclusive(start_after, limit) ==
    Responses(take(Ascending(InRange(IF is_some(start_after)
                                     THEN Some(unwrap(start_after) - 1) ELSE None, None)),
                   unwrap_or(limit, DEFAULT_LIMIT)))

query_list_proposals(start_after, limit) ==
    Responses(take(Ascending(InRange(start_after, None)), unwrap_or(limit, DEFAULT_LIMIT)))

query_reverse_proposals(start_before, limit) ==
    Responses(take(Descending(InRange(None, start_before)),
                   unwrap_or(limit, DEFAULT_LIMIT)))

-----------------------------------------------------------------------------
(* The host: runs one call to completion, rolls it back on an error (a    *)
(* failed call leaves no trace in the store), runs the plain messages of   *)
(* the response with it and queues the reply-on-error sub-messages, whose  *)
(* outcome it reports next.                                                *)

Response(op, pid, out) == [op |-> op, proposal_id |-> pid, note |-> out.note,
                           msgs |-> out.msgs]

NoResponse(op) == [op |-> op, proposal_id |-> 0, note |-> "", msgs |-> <<>>]

(* the call dispatched its batch and the batch failed: the host reverted it *)
Aborted(op, pid) == [op |-> "aborted", proposal_id |-> pid, note |-> op, msgs |-> <<>>]

IsRefund(m) == m.kind = "transfer" /\ m.from = "module"

Refunds(msgs) == SelectSeq(msgs, IsRefund)

pay(b, m) == [b EXCEPT ![m.from] = @ - m.amount, ![m.to] = @ + m.amount]

RECURSIVE run_transfers(_, _)
run_transfers(b, msgs) ==
    IF msgs = <<>> THEN [ok |-> TRUE, bal |-> b]
    ELSE IF Head(msgs).kind # "transfer" THEN run_transfers(b, Tail(msgs))
    ELSE IF b[Head(msgs).from] < Head(msgs).amount THEN [ok |-> FALSE, bal |-> b]
    ELSE run_transfers(pay(b, Head(msgs)), Tail(msgs))

IsSubMsg(m) == m.reply_id >= 0

IsBatch(m) == m.kind = "execute_proposal_hook"

HasBatch(msgs) == \E i \in 1..Len(msgs) : IsBatch(msgs[i])

HasPlainBatch(msgs) == \E i \in 1..Len(msgs) : IsBatch(msgs[i]) /\ ~IsSubMsg(msgs[i])

Install(out) ==
    /\ config' = out.config
    /\ proposals' = out.proposals
    /\ ballots' = out.ballots
    /\ proposal_count' = out.proposal_count
    /\ proposal_hooks' = out.proposal_hooks
    /\ vote_hooks' = out.vote_hooks
    /\ UNCHANGED named_groups

Restore(saved) ==
    /\ config' = saved[1]
    /\ proposals' = saved[2]
    /\ ballots' = saved[3]
    /\ proposal_count' = saved[4]
    /\ proposal_hooks' = saved[5]
    /\ vote_hooks' = saved[6]
    /\ bal' = saved[7]
    /\ refunds' = saved[8]
    /\ UNCHANGED named_groups

Abort == UNCHANGED vars

(* a host that keeps what a failed handler has written *)
CallKeepingWrites(op, out, pid, dao_ok) ==
    IF out.err # "ok"
    THEN Install(out) /\ UNCHANGED <<bal, refunds, now, inflight, tx_start, attempts, result>>
    ELSE IF HasPlainBatch(out.msgs) /\ ~dao_ok
    THEN /\ attempts' = [attempts EXCEPT ![pid] = @ + 1]
         /\ result' = Aborted(op, pid)
         /\ UNCHANGED <<store, named_groups, now, inflight, tx_start>>
    ELSE IF ~run_transfers(bal, out.msgs).ok THEN Abort
    ELSE /\ Install(out)
         /\ bal' = run_transfers(bal, out.msgs).bal
         /\ refunds' = IF Refunds(out.msgs) = <<>> THEN refunds
                       ELSE [refunds EXCEPT ![pid] = @ \o Refunds(out.msgs)]
         /\ inflight' = SelectSeq(out.msgs, IsSubMsg)
         /\ tx_start' = IF SelectSeq(out.msgs, IsSubMsg) = <<>> THEN None ELSE Some(store)
         /\ attempts' = IF HasBatch(out.msgs)
                        THEN [attempts EXCEPT ![pid] = @ + 1] ELSE attempts
         /\ result' = Response(op, pid, out)
         /\ UNCHANGED now

(* a call about proposal pid (0: none) with handler result out; dao_ok says *)
(* whether the DAO runs a batch sent to it as a plain message successfully  *)
Call(op, out, pid, dao_ok) ==
    IF out.err # "ok" THEN Abort
    ELSE IF HasPlainBatch(out.msgs) /\ ~dao_ok
    THEN /\ attempts' = [attempts EXCEPT ![pid] = @ + 1]
         /\ result' = Aborted(op, pid)
         /\ UNCHANGED <<store, named_groups, now, inflight, tx_start>>
    ELSE IF ~run_transfers(bal, out.msgs).ok THEN Abort
    ELSE /\ Install(out)
         /\ bal' = run_transfers(bal, out.msgs).bal
         /\ refunds' = IF Refunds(out.msgs) = <<>> THEN refunds
                       ELSE [refunds EXCEPT ![pid] = @ \o Refunds(out.msgs)]
         /\ inflight' = SelectSeq(out.msgs, IsSubMsg)
         /\ tx_start' = IF SelectSeq(out.msgs, IsSubMsg) = <<>> THEN None ELSE Some(store)
         /\ attempts' = IF HasBatch(out.msgs)
                        THEN [attempts EXCEPT ![pid] = @ + 1] ELSE attempts
         /\ result' = Response(op, pid, out)
         /\ UNCHANGED now

(* a query is answered and leaves the store as it is *)
Answer(op, response) ==
    /\ result' = [op |-> op, proposal_id |-> 0, note |-> "", msgs |-> response]
    /\ UNCHANGED <<store, named_groups, now, inflight, tx_start, attempts>>

Idle == inflight = <<>>

(* the sub-message at the head of the queue succeeds: no reply *)
SubMsgOk ==
    /\ inflight # <<>>
    /\ inflight' = Tail(inflight)
    /\ tx_start' = IF Tail(inflight) = <<>> THEN None ELSE tx_start
    /\ UNCHANGED <<store, named_groups, now, attempts, result>>

(* the sub-message at the head of the queue fails: the reply entry point   *)
(* runs; an error of the reply fails the whole transaction                 *)
Reply ==
    /\ inflight # <<>>
    /\ LET out == reply(Head(inflight).reply_id)
       IN  IF out.err # "ok"
           THEN /\ Restore(unwrap(tx_start))
                /\ inflight' = <<>>
                /\ tx_start' = None
                /\ result' = NoResponse("rolled_back")
                /\ UNCHANGED <<now, attempts>>
           ELSE /\ Install(out)
                /\ inflight' = Tail(inflight)
                /\ tx_start' = IF Tail(inflight) = <<>> THEN None ELSE tx_start
                /\ result' = Response("reply", 0, out)
                /\ UNCHANGED <<bal, refunds, now, attempts>>

AdvanceBlock ==
    /\ Idle
    /\ now < MaxTime
    /\ now' = now + 1
    /\ result' = NoResponse("block")
    /\ UNCHANGED <<store, named_groups, inflight, tx_start, attempts>>

-----------------------------------------------------------------------------
(* Inputs of the explored calls *)

Deposit(amount, refund_policy) ==
    Some([denom |-> "ujuno", amount |-> amount, refund_policy |-> refund_policy])

Majority == [kind |-> "majority", percent |-> 0]

Percent(p) == [kind |-> "percent", percent |-> p]

ConfigMsg(dao, revoting, members, close, open, deposit, min, max, quorum) ==
    [voting_strategy |-> quorum, min_voting_period |-> min, max_voting_period |-> max,
     only_members_execute |-> members, allow_revoting |-> revoting, dao |-> dao,
     deposit_info |-> deposit, close_proposal_on_execution_failure |-> close,
     open_proposal_submission |-> open]

HooksConfigMsg ==
    ConfigMsg("dao", FALSE, FALSE, TRUE, TRUE, Deposit(1, "Always"), None, 2, Majority)

HooksNoCloseConfigMsg ==
    ConfigMsg("dao", FALSE, FALSE, FALSE, TRUE, Deposit(1, "Always"), None, 2, Majority)

(* members propose without a deposit; three tenths of the power is a quorum *)
QueriesConfigMsg ==
    ConfigMsg("dao", FALSE, FALSE, TRUE, FALSE, None, None, 1, Percent(30))

(* a deposit of one unit under each refund policy *)
DepositConfigMsgs ==
    { ConfigMsg("dao", FALSE, FALSE, TRUE, TRUE, Deposit(1, policy), None, 1, Percent(30)) :
        policy \in {"Always", "Never", "OnlyPassed"} }

ConfigMsgs ==
    { HooksConfigMsg,
      ConfigMsg("dao", TRUE, TRUE, FALSE, FALSE, Deposit(1, "Never"), None, 1, Percent(30)),
      ConfigMsg("dao2", FALSE, FALSE, FALSE, TRUE, Deposit(2, "OnlyPassed"), Some(1), 2,
                Majority),
      ConfigMsg("dao", TRUE, TRUE, TRUE, FALSE, None, None, 0, Majority),
      ConfigMsg("dao", FALSE, FALSE, TRUE, TRUE, Deposit(0, "Always"), None, 2, Majority),
      ConfigMsg("dao2", TRUE, FALSE, FALSE, TRUE,
                Some([denom |-> "unknown", amount |-> 0, refund_policy |-> "Never"]),
                Some(3), 2, Percent(30)),
      ConfigMsg("dao", FALSE, FALSE, TRUE, TRUE, None, Some(2), 1, Majority) }

Choice(msgs) == [msgs |-> msgs]

MixedOptions == <<Choice(Some(<<"m1">>)), Choice(None)>>

OptionInputs ==
    { MixedOptions,
      <<Choice(Some(<<"m1", "m2">>)), Choice(Some(<<>>))>>,
      <<Choice(Some(<<"m1">>))>> }

(* Option<u64> arguments of the listing queries *)
Cursors == {None} \cup {Some(id) : id \in 0..(MaxIds + 1)}

Limits == {None} \cup {Some(n) : n \in 0..(MaxIds + 1)}

VoteInputs == {0, 1, 2}

ProposalIds == 1..(MaxProposals + 1)

InitialBalance == [a \in Accounts |-> IF a \in {"alice", "bob"} THEN 2 ELSE 0]

-----------------------------------------------------------------------------
(* The calls *)

ProposeFrom(senders, inputs) ==
    /\ Idle
    /\ proposal_count < MaxProposals
    /\ \E sender \in senders, options \in inputs,
          size \in {MAX_PROPOSAL_SIZE, MAX_PROPOSAL_SIZE + 1}, active \in BOOLEAN :
          Call("propose", execute_propose(sender, options, size, active), 0, TRUE)

Propose == ProposeFrom(Senders, OptionInputs)

(* proposals whose voting period ends within the explored time *)
ProposeInTime ==
    /\ after(config.max_voting_period, now) <= MaxTime
    /\ Propose

(* a series of proposals with one list of choices *)
ProposeSeries ==
    /\ Idle
    /\ proposal_count < MaxIds
    /\ \E sender \in Senders, size \in {MAX_PROPOSAL_SIZE, MAX_PROPOSAL_SIZE + 1} :
          Call("propose", execute_propose(sender, MixedOptions, size, TRUE), 0, TRUE)

(* a series of proposals of one member *)
ProposeSeriesByAlice ==
    /\ Idle
    /\ proposal_count < MaxIds
    /\ Call("propose", execute_propose("alice", MixedOptions, MAX_PROPOSAL_SIZE, TRUE),
            0, TRUE)

(* proposals of one member with one list of choices *)
ProposeByAlice == ProposeFrom({"alice"}, {MixedOptions})

Vote ==
    /\ Idle
    /\ \E sender \in Senders, proposal_id \in ProposalIds, vote \in VoteInputs :
          Call("vote", execute_vote(sender, proposal_id, vote), proposal_id, TRUE)

(* the votes of one member *)
VoteByAlice ==
    /\ Idle
    /\ \E proposal_id \in ProposalIds, vote \in VoteInputs :
          Call("vote", execute_vote("alice", proposal_id, vote), proposal_id, TRUE)

Execute ==
    /\ Idle
    /\ \E sender \in Senders, proposal_id \in ProposalIds, dao_ok \in BOOLEAN :
          /\ attempts[proposal_id] < MaxAttempts
          /\ Call("execute", execute_execute(sender, proposal_id), proposal_id, dao_ok)

Close ==
    /\ Idle
    /\ \E sender \in Senders, proposal_id \in ProposalIds :
          Call("close", execute_close(sender, proposal_id), proposal_id, TRUE)

(* the calls that close proposal proposal_id *)
CloseProposal(proposal_id) ==
    /\ Idle
    /\ \E sender \in Senders :
          Call("close", execute_close(sender, proposal_id), proposal_id, TRUE)

UpdateConfig ==
    /\ Idle
    /\ \E sender \in Senders, msg \in ConfigMsgs :
          Call("update_config", execute_update_config(sender, msg), 0, TRUE)

AddProposalHook ==
    /\ Idle
    /\ \E sender \in Senders, address \in HookAddrs :
          Call("add_proposal_hook", execute_add_proposal_hook(sender, address), 0, TRUE)

RemoveProposalHook ==
    /\ Idle
    /\ \E sender \in Senders, address \in HookAddrs :
          Call("remove_proposal_hook", execute_remove_proposal_hook(sender, address),
               0, TRUE)

AddVoteHook ==
    /\ Idle
    /\ \E sender \in Senders, address \in HookAddrs :
          Call("add_vote_hook", execute_add_vote_hook(sender, address), 0, TRUE)

RemoveVoteHook ==
    /\ Idle
    /\ \E sender \in Senders, address \in HookAddrs :
          Call("remove_vote_hook", execute_remove_vote_hook(sender, address), 0, TRUE)

QueryProposal ==
    \E id \in 1..(MaxIds + 1) :
        /\ query_proposal(id).err = "ok"
        /\ Answer("query_proposal", query_proposal(id).response)

ListProposals ==
    \E start_after \in Cursors, limit \in Limits :
        Answer("list_proposals", query_list_proposals(start_after, limit))

ReverseProposals ==
    \E start_before \in Cursors, limit \in Limits :
        Answer("reverse_proposals", query_reverse_proposals(start_before, limit))

-----------------------------------------------------------------------------

(* The named-groups registry (cw-named-groups): an owner and named groups   *)
(* of addresses, kept as the key sets of two indexes, group -> address and *)
(* address -> group.                                                       *)

GroupNames == {"g1", "g2"}

(* the keys of each index in ascending order *)
GroupOrder == <<"g1", "g2">>
AddrOrder == <<"alice", "bob", "dao", "dao2">>

(* deps.api.addr_validate: an address of the chain is accepted as it is *)
addr_validate(address) == address \in Senders

all_valid(addresses) ==
    is_some(addresses)
        => \A i \in 1..Len(unwrap(addresses)) : addr_validate(unwrap(addresses)[i])

Elements(addresses) ==
    IF is_some(addresses)
    THEN {unwrap(addresses)[i] : i \in 1..Len(unwrap(addresses))}
    ELSE {}

NoGroups == [groups_to_addresses |-> {}, addresses_to_groups |-> {}]

(* GROUPS.update: the addresses to add are stored under the group in both  *)
(* indexes, then the addresses to remove are deleted from both             *)
update(groups, name, addresses_to_add, addresses_to_remove) ==
    [groups_to_addresses |->
        (groups.groups_to_addresses \cup {<<name, a>> : a \in Elements(addresses_to_add)})
            \ {<<name, a>> : a \in Elements(addresses_to_remove)},
     addresses_to_groups |->
        (groups.addresses_to_groups \cup {<<a, name>> : a \in Elements(addresses_to_add)})
            \ {<<a, name>> : a \in Elements(addresses_to_remove)}]

(* GROUPS.remove_group: every key of the group leaves both indexes *)
remove_group(groups, name) ==
    [groups_to_addresses |-> {k \in groups.groups_to_addresses : k[1] # name},
     addresses_to_groups |-> {k \in groups.addresses_to_groups : k[2] # name}]

Attribute(key, value) == [key |-> key, value |-> value]

GroupsOk(attributes) ==
    [err |-> "ok", OWNER |-> OWNER, GROUPS |-> GROUPS, attributes |-> attributes]

GroupsErr(e) == [GroupsOk(<<>>) EXCEPT !.err = e]

(* the registry as its instantiation leaves it: the sender owns it *)
named_groups_instantiate(sender, initial_groups) ==
    [err |-> "ok", OWNER |-> sender, GROUPS |-> initial_groups,
     attributes |-> <<Attribute("method", "instantiate"), Attribute("owner", sender)>>]

execute_update_by_anyone(sender, group, addresses_to_add, addresses_to_remove) ==
    IF ~all_valid(addresses_to_add) THEN GroupsErr("InvalidAddress")
    ELSE IF ~all_valid(addresses_to_remove) THEN GroupsErr("InvalidAddress")
    ELSE [GroupsOk(<<Attribute("method", "add"), Attribute("group", group),
                     Attribute("addresses_added", Len(unwrap_or(addresses_to_add, <<>>))),
                     Attribute("addresses_removed", Len(unwrap_or(addresses_to_remove, <<>>)))>>)
          EXCEPT !.GROUPS = update(GROUPS, group, addresses_to_add, addresses_to_remove)]

execute_update(sender, group, addresses_to_add, addresses_to_remove) ==
    IF sender # OWNER THEN GroupsErr("Unauthorized")
    ELSE IF ~all_valid(addresses_to_add) THEN GroupsErr("InvalidAddress")
    ELSE IF ~all_valid(addresses_to_remove) THEN GroupsErr("InvalidAddress")
    ELSE [GroupsOk(<<Attribute("method", "add"), Attribute("group", group),
                     Attribute("addresses_added", Len(unwrap_or(addresses_to_add, <<>>))),
                     Attribute("addresses_removed", Len(unwrap_or(addresses_to_remove, <<>>)))>>)
          EXCEPT !.GROUPS = update(GROUPS, group, addresses_to_add, addresses_to_remove)]

execute_remove_group(sender, name) ==
    IF sender # OWNER THEN GroupsErr("Unauthorized")
    ELSE [GroupsOk(<<Attribute("method", "remove"), Attribute("group", name)>>)
          EXCEPT !.GROUPS = remove_group(GROUPS, name)]

execute_update_owner(sender, new_owner) ==
    IF sender # OWNER THEN GroupsErr("Unauthorized")
    ELSE IF ~addr_validate(new_owner) THEN GroupsErr("GenericErr")
    ELSE [GroupsOk(<<Attribute("method", "change_owner"), Attribute("owner", new_owner)>>)
          EXCEPT !.OWNER = new_owner]

(* Vec::into_iter().skip(n) *)
skip(seq, n) == SubSeq(seq, n + 1, Len(seq))

(* the keys under a prefix, ascending, collected: the collection fails     *)
(* only on a key that does not decode, and every stored key was written    *)
(* from a validated address or from a group name                           *)
addresses_of(group) ==
    SelectSeq(AddrOrder, LAMBDA a : <<group, a>> \in GROUPS.groups_to_addresses)

groups_of(addr) ==
    SelectSeq(GroupOrder, LAMBDA g : <<addr, g>> \in GROUPS.addresses_to_groups)

query_list_addresses(group, offset, limit) ==
    LET addresses == addresses_of(group)
        default_take_all == Len(addresses)
    IN  [err |-> "ok",
         addresses |-> take(skip(addresses, unwrap_or(offset, 0)),
                            unwrap_or(limit, default_take_all))]

query_list_groups(address, offset, limit) ==
    IF ~addr_validate(address) THEN [err |-> "GenericErr", groups |-> <<>>]
    ELSE LET groups == groups_of(address)
             default_take_all == Len(groups)
         IN  [err |-> "ok",
              groups |-> take(skip(groups, unwrap_or(offset, 0)),
                              unwrap_or(limit, default_take_all))]

-----------------------------------------------------------------------------

InitWith(msgs) ==
    /\ \E msg \in msgs :
          /\ instantiate("dao", msg).err = "ok"
          /\ config = instantiate("dao", msg).config
    /\ proposals = <<>>
    /\ ballots = <<>>
    /\ proposal_count = 0
    /\ proposal_hooks = <<>>
    /\ vote_hooks = <<>>
    /\ bal = InitialBalance
    /\ now = 0
    /\ inflight = <<>>
    /\ tx_start = None
    /\ attempts = [p \in ProposalIds |-> 0]
    /\ refunds = [p \in ProposalIds |-> <<>>]
    /\ OWNER = named_groups_instantiate("dao", NoGroups).OWNER
    /\ GROUPS = named_groups_instantiate("dao", NoGroups).GROUPS
    /\ result = NoResponse("instantiate")

Init == InitWith(ConfigMsgs)

InitHooks == InitWith({HooksConfigMsg, HooksNoCloseConfigMsg})

(* The proposal lifecycle under any sequence of configurations; the hook   *)
(* registries stay empty.                                                  *)
Next ==
    \/ Propose
    \/ Vote
    \/ Execute
    \/ Close
    \/ UpdateConfig
    \/ SubMsgOk
    \/ Reply
    \/ AdvanceBlock

Spec == Init /\ [][Next]_vars

(* The lifecycle of the proposals of one member with hook subscribers,     *)
(* under the configuration the module was instantiated with, with or      *)
(* without close_proposal_on_execution_failure.                            *)
NextHooks ==
    \/ ProposeByAlice
    \/ Vote
    \/ Execute
    \/ Close
    \/ AddProposalHook
    \/ RemoveProposalHook
    \/ AddVoteHook
    \/ RemoveVoteHook
    \/ SubMsgOk
    \/ Reply
    \/ AdvanceBlock

SpecHooks == InitHooks /\ [][NextHooks]_vars

(* The administration of the module: its configuration, which may name a   *)
(* new DAO, and its hook registries.                                       *)
NextAdmin ==
    \/ UpdateConfig
    \/ AddProposalHook
    \/ RemoveProposalHook
    \/ AddVoteHook
    \/ RemoveVoteHook

SpecAdmin == Init /\ [][NextAdmin]_vars

(* Several proposals, made one after another, that expire and are closed.  *)
NextSeries ==
    \/ ProposeSeries
    \/ Close
    \/ AdvanceBlock

SpecSeries == Init /\ [][NextSeries]_vars

InitQueries == InitWith({QueriesConfigMsg})

(* Several proposals of one member under one configuration, voted on by   *)
(* that member, expiring and closed, and the queries on them.              *)
NextQueries ==
    \/ ProposeSeriesByAlice
    \/ VoteByAlice
    \/ Close
    \/ AdvanceBlock
    \/ QueryProposal
    \/ ListProposals
    \/ ReverseProposals

SpecQueries == InitQueries /\ [][NextQueries]_vars

(* The lifecycle under the configuration of the instantiation, where the   *)
(* blocks go on, the host finishes the transaction it runs, and every      *)
(* proposal that can be closed is closed at some time.                     *)
NextFair ==
    \/ ProposeInTime
    \/ Vote
    \/ Execute
    \/ Close
    \/ SubMsgOk
    \/ Reply
    \/ AdvanceBlock

Fairness ==
    /\ WF_vars(AdvanceBlock)
    /\ WF_vars(SubMsgOk \/ Reply)
    /\ \A proposal_id \in ProposalIds : WF_vars(CloseProposal(proposal_id))

SpecFair == Init /\ [][NextFair]_vars /\ Fairness

(* Inputs of the calls on the registry *)
AddressLists ==
    {None, Some(<<>>), Some(<<"alice">>), Some(<<"bob">>), Some(<<"alice", "bob">>),
     Some(<<"alice", "">>)}

Offsets == {None, Some(0), Some(1)}

Takes == {None, Some(0), Some(1), Some(3)}

(* a call on the registry: an error is rolled back, a success installs     *)
(* what the handler has written and answers with its attributes            *)
GroupsCall(op, out) ==
    IF out.err # "ok" THEN Abort
    ELSE /\ OWNER' = out.OWNER
         /\ GROUPS' = out.GROUPS
         /\ result' = [op |-> op, proposal_id |-> 0, note |-> "", msgs |-> out.attributes]
         /\ UNCHANGED <<store, now, inflight, tx_start, attempts>>

Update ==
    /\ Idle
    /\ \E sender \in Senders, group \in GroupNames,
          addresses_to_add \in AddressLists, addresses_to_remove \in AddressLists :
          GroupsCall("update",
                     execute_update(sender, group, addresses_to_add, addresses_to_remove))

RemoveGroup ==
    /\ Idle
    /\ \E sender \in Senders, group \in GroupNames :
          GroupsCall("remove_group", execute_remove_group(sender, group))

UpdateOwner ==
    /\ Idle
    /\ \E sender \in Senders, owner \in Senders \cup {""} :
          GroupsCall("update_owner", execute_update_owner(sender, owner))

ListAddresses ==
    \E group \in GroupNames, offset \in Offsets, limit \in Takes :
        Answer("list_addresses", query_list_addresses(group, offset, limit))

ListGroups ==
    \E address \in Senders \cup {""}, offset \in Offsets, limit \in Takes :
        Answer("list_groups", query_list_groups(address, offset, limit))

(* The registry, instantiated by the DAO without groups, under the calls   *)
(* of all senders and its listing queries; the proposal module is left as  *)
(* instantiated.                                                           *)
InitGroups == InitWith({QueriesConfigMsg})

NextGroups ==
    \/ Update
    \/ RemoveGroup
    \/ UpdateOwner
    \/ ListAddresses
    \/ ListGroups

SpecGroups == InitGroups /\ [][NextGroups]_vars

InitDeposits == InitWith(DepositConfigMsgs)

(* Several proposals of one member, each with a deposit, voted on by that  *)
(* member, executed and closed.                                            *)
NextDeposits ==
    \/ ProposeSeriesByAlice
    \/ VoteByAlice
    \/ Execute
    \/ Close
    \/ SubMsgOk
    \/ Reply
    \/ AdvanceBlock

SpecDeposits == InitDeposits /\ [][NextDeposits]_vars

-----------------------------------------------------------------------------
(* Properties *)

Final == {"executed", "execution_failed", "closed"}

HasBallot(p, voter) == <<p, voter>> \in DOMAIN ballots

(* the weight of voter's standing ballot on p if it is for choice, else 0 *)
BallotWeight(p, voter, choice) ==
    IF HasBallot(p, voter) /\ ballots[<<p, voter>>].vote = choice
    THEN ballots[<<p, voter>>].power ELSE 0

RECURSIVE SumBallots(_, _, _)
SumBallots(p, choice, voters) ==
    IF voters = {} THEN 0
    ELSE LET v == CHOOSE x \in voters : TRUE
         IN  BallotWeight(p, v, choice) + SumBallots(p, choice, voters \ {v})

RECURSIVE SumCast(_, _)
SumCast(p, voters) ==
    IF voters = {} THEN 0
    ELSE LET v == CHOOSE x \in voters : TRUE
         IN  (IF HasBallot(p, v) THEN ballots[<<p, v>>].power ELSE 0)
             + SumCast(p, voters \ {v})

(* C1: tally conservation. For every proposal, each choice's tallied weight *)
(* is the sum of the weights of the standing (most recently cast) ballots   *)
(* for that choice, and the sum of all tallied weights is the sum, over the *)
(* distinct voters, of the weight of the voter's standing ballot: a revote  *)
(* never counts a voter twice.                                              *)
C1_TallyConservation ==
    \A p \in DOMAIN proposals :
        /\ \A c \in 1..Len(proposals[p].votes) :
              proposals[p].votes[c] = SumBallots(p, c - 1, Senders)
        /\ total(proposals[p].votes) = SumCast(p, Senders)

(* a revote has just been committed on a proposal with revoting enabled *)
C1_Witness ==
    /\ result.op = "vote"
    /\ result.note = "revote"
    /\ proposals[result.proposal_id].allow_revoting
    /\ total(proposals[result.proposal_id].votes) > 0

StatusChanges(edges) ==
    \A p \in DOMAIN proposals :
        /\ p \in DOMAIN proposals'
        /\ proposals'[p].status # proposals[p].status
              => <<proposals[p].status, proposals'[p].status>> \in edges

(* a transaction reverted as a whole leaves no change behind *)
Reverted == result'.op = "rolled_back"

(* the edges of the state diagram, and what an operation that first       *)
(* recomputes the status of an Open proposal makes of them                 *)
ClaimedEdges ==
    { <<"open", "passed">>, <<"open", "rejected">>, <<"passed", "executed">>,
      <<"passed", "execution_failed">>, <<"rejected", "closed">>,
      <<"open", "executed">>, <<"open", "execution_failed">>, <<"open", "closed">> }

(* Execute and Close recompute the status of an Open proposal before they  *)
(* write the next one, and the failure reply rewrites Executed             *)
StoredEdges ==
    { <<"open", "passed">>, <<"open", "rejected">>, <<"passed", "executed">>,
      <<"rejected", "closed">>, <<"open", "executed">>, <<"open", "closed">>,
      <<"executed", "execution_failed">> }

(* C2 as stated: every change of a stored status follows Open->Passed,      *)
(* Open->Rejected, Passed->Executed, Passed->ExecutionFailed or             *)
(* Rejected->Closed (an Open proposal entering through its recomputed       *)
(* status), and Executed, ExecutionFailed and Closed never change.          *)
C2_ClaimedEdgesOnly == [][Reverted \/ StatusChanges(ClaimedEdges)]_vars

(* C2: every change of a proposal's stored status by one operation follows  *)
(* Open->Passed, Open->Rejected, Passed->Executed, Rejected->Closed, the    *)
(* compositions Open->Executed (Execute) and Open->Closed (Close) through   *)
(* the recomputed status, or Executed->ExecutionFailed, which only the      *)
(* failure reply makes; ExecutionFailed and Closed never change; no         *)
(* proposal is removed.                                                     *)
C2_StatusEdges ==
    [][Reverted
       \/ /\ StatusChanges(StoredEdges)
          /\ \A p \in DOMAIN proposals :
                (proposals[p].status = "executed" /\ proposals'[p].status # "executed")
                    => result'.op = "reply"]_vars

(* the failure reply has rewritten an Executed proposal *)
C2_Witness ==
    /\ result.op = "reply"
    /\ \E p \in DOMAIN proposals : proposals[p].status = "execution_failed"

(* C3: once a proposal is Executed, Closed or ExecutionFailed, no Vote on   *)
(* it succeeds, whatever the voter, the choice and allow_revoting, and no   *)
(* step changes its tally or its ballots.                                   *)
C3_NoVoteAfterFinal ==
    /\ [](\A p \in DOMAIN proposals :
            proposals[p].status \in Final
                => \A s \in Senders, v \in VoteInputs : execute_vote(s, p, v).err # "ok")
    /\ [][\A p \in DOMAIN proposals :
            proposals[p].status \in Final
                => /\ p \in DOMAIN proposals'
                   /\ proposals'[p].votes = proposals[p].votes
                   /\ \A s \in Senders :
                         /\ (<<p, s>> \in DOMAIN ballots') = HasBallot(p, s)
                         /\ HasBallot(p, s) => ballots'[<<p, s>>] = ballots[<<p, s>>]]_vars

(* a member with voting power votes for an existing choice of a final       *)
(* proposal with revoting enabled, and is refused for the status            *)
C3_Witness ==
    \E p \in DOMAIN proposals :
        /\ proposals[p].status \in Final
        /\ proposals[p].allow_revoting
        /\ HasBallot(p, "alice")
        /\ execute_vote("alice", p, 1 - ballots[<<p, "alice">>].vote).err = "NotOpen"

Tied(p) == calculate_vote_result(proposals[p]).kind = "Tie"

Status(p) == current_status(proposals[p], now)

(* C4 as stated: every Execute on a tied proposal that expiration has not   *)
(* yet rejected fails with the Tie error.                                   *)
C4_TieError ==
    \A p \in DOMAIN proposals :
        (Tied(p) /\ Status(p) = "open")
            => \A s \in Senders :
                  may_execute(s) => execute_execute(s, p).err = "Tie"

(* C4: a proposal whose leading choices are tied is never Passed, Executed  *)
(* or ExecutionFailed, and every Execute on it is refused: with NotPassed   *)
(* for a sender allowed to execute, never with the Tie error.               *)
C4_TieSafety ==
    \A p \in DOMAIN proposals :
        Tied(p)
            => /\ Status(p) \notin {"passed", "executed", "execution_failed"}
               /\ \A s \in Senders :
                     execute_execute(s, p).err =
                        IF may_execute(s) THEN "NotPassed" ELSE "Unauthorized"

(* two choices hold the same positive weight on a proposal still open, and *)
(* a member's Execute is refused                                           *)
C4_Witness ==
    \E p \in DOMAIN proposals :
        /\ Tied(p)
        /\ total(proposals[p].votes) > 0
        /\ Status(p) = "open"
        /\ execute_execute("alice", p).err = "NotPassed"

DaoAddrs == {"dao", "dao2"}

(* the proposer is owed the deposit back: always, or for a passed proposal *)
RefundedToProposer(p) ==
    LET policy == unwrap(proposals[p].deposit_info).refund_policy
    IN  \/ policy = "Always"
        \/ policy = "OnlyPassed" /\ proposals[p].status \in {"executed", "execution_failed"}

RECURSIVE SumAmounts(_)
SumAmounts(msgs) == IF msgs = <<>> THEN 0 ELSE Head(msgs).amount + SumAmounts(Tail(msgs))

DepositAmount(p) ==
    IF is_some(proposals[p].deposit_info)
    THEN unwrap(proposals[p].deposit_info).amount ELSE 0

PaidTo(a, msgs) == SumAmounts(SelectSeq(msgs, LAMBDA m : m.to = a))

(* what account a has received back less what it has deposited, over ps *)
RECURSIVE NetReturn(_, _)
NetReturn(a, ps) ==
    IF ps = {} THEN 0
    ELSE LET p == CHOOSE x \in ps : TRUE
         IN  PaidTo(a, refunds[p])
             - (IF proposals[p].proposer = a THEN DepositAmount(p) ELSE 0)
             + NetReturn(a, ps \ {p})

RECURSIVE Escrowed(_)
Escrowed(ps) ==
    IF ps = {} THEN 0
    ELSE LET p == CHOOSE x \in ps : TRUE
         IN  DepositAmount(p) - SumAmounts(refunds[p]) + Escrowed(ps \ {p})

(* C5: deposit round-trip. A proposal with a deposit that Execute or Close  *)
(* has resolved has paid the deposit out exactly once and in full: to the   *)
(* proposer under Always, to the DAO under Never, and under OnlyPassed to   *)
(* the proposer if it was executed and to the DAO if it was closed. Until   *)
(* then the module holds the deposit. Every balance is the initial one     *)
(* less the deposits made plus the deposits received.                       *)
C5_DepositRoundTrip ==
    /\ bal["module"] = Escrowed(DOMAIN proposals)
    /\ \A a \in Senders : bal[a] = InitialBalance[a] + NetReturn(a, DOMAIN proposals)
    /\ \A p \in DOMAIN proposals :
          is_some(proposals[p].deposit_info)
              => IF proposals[p].status \in Final
                 THEN /\ Len(refunds[p]) = 1
                      /\ refunds[p][1].amount = unwrap(proposals[p].deposit_info).amount
                      /\ RefundedToProposer(p) => refunds[p][1].to = proposals[p].proposer
                      /\ ~RefundedToProposer(p) => refunds[p][1].to \in DaoAddrs
                      /\ (~RefundedToProposer(p) /\ result.proposal_id = p
                             /\ result.op \in {"execute", "close"})
                            => refunds[p][1].to = config.dao
                 ELSE refunds[p] = <<>>

(* a proposal under OnlyPassed was closed and the DAO, not the proposer,   *)
(* received its deposit                                                    *)
C5_Witness ==
    \E p \in DOMAIN proposals :
        /\ is_some(proposals[p].deposit_info)
        /\ unwrap(proposals[p].deposit_info).refund_policy = "OnlyPassed"
        /\ proposals[p].status = "closed"
        /\ refunds[p][1].to \in DaoAddrs
        /\ bal[proposals[p].proposer] = InitialBalance[proposals[p].proposer]
                                          - unwrap(proposals[p].deposit_info).amount

(* C6: Execute succeeds only on a proposal whose status recomputed at the   *)
(* current block is Passed, and then writes Executed; on any other status   *)
(* it fails, with NotPassed for a sender allowed to execute, and writes and *)
(* sends nothing.                                                           *)
C6_ExecuteRequiresPassed ==
    \A p \in DOMAIN proposals, s \in Senders :
        LET out == execute_execute(s, p)
        IN  /\ ~may_execute(s) => out.err = "Unauthorized"
            /\ (may_execute(s) /\ Status(p) = "passed")
                  => out.err = "ok" /\ out.proposals[p].status = "executed"
            /\ (may_execute(s) /\ Status(p) # "passed") => out.err = "NotPassed"
            /\ out.err # "ok" => out.proposals = proposals /\ out.msgs = <<>>

(* an expired proposal with a single leading choice short of the quorum,   *)
(* still stored as Open, is refused                                        *)
C6_Witness ==
    \E p \in DOMAIN proposals :
        /\ proposals[p].status = "open"
        /\ is_expired(proposals[p].expiration, now)
        /\ ~Tied(p)
        /\ Status(p) = "rejected"
        /\ execute_execute("alice", p).err = "NotPassed"

(* C7: Close succeeds exactly when the status recomputed at the current     *)
(* block is Rejected, and then writes Closed; on an Open, Passed, Executed, *)
(* ExecutionFailed or Closed proposal it fails with WrongCloseStatus, pays  *)
(* no deposit and writes nothing.                                           *)
C7_CloseRequiresRejected ==
    \A p \in DOMAIN proposals, s \in Senders :
        LET out == execute_close(s, p)
        IN  IF Status(p) = "rejected"
            THEN out.err = "ok" /\ out.proposals[p].status = "closed"
            ELSE /\ out.err = "WrongCloseStatus"
                 /\ out.msgs = <<>>
                 /\ out.proposals = proposals

(* a second Close of a closed proposal with a deposit is refused *)
C7_Witness ==
    \E p \in DOMAIN proposals :
        /\ proposals[p].status = "closed"
        /\ refunds[p] # <<>>
        /\ execute_close("bob", p).err = "WrongCloseStatus"

StatusHooks(msgs) == SelectSeq(msgs, LAMBDA m : m.kind = "status_changed")

(* C8: two-phase execute. While the batch of proposal p, dispatched with    *)
(* reply-on-error, awaits its outcome, the Execute that sent it is          *)
(* committed: p is stored as Executed, its deposit refund is paid and one   *)
(* status-changed hook per subscriber is issued; the failure reply for the  *)
(* batch's id writes ExecutionFailed on p, touches nothing else and sends   *)
(* no message; and an ExecutionFailed proposal keeps its refund and accepts *)
(* no Execute, so the batch is never run again.                             *)
C8_TwoPhaseExecute ==
    /\ (inflight # <<>> /\ IsBatch(Head(inflight)))
          => LET p == Head(inflight).proposal_id
                 out == reply(Head(inflight).reply_id)
             IN  /\ config.close_proposal_on_execution_failure
                 /\ proposals[p].status = "executed"
                 /\ refunds[p] = execute_refund_message(proposals[p])
                 /\ result.op = "execute" /\ result.proposal_id = p
                 /\ Len(StatusHooks(result.msgs)) = Len(proposal_hooks)
                 /\ StatusHooks(result.msgs) = StatusHooks(Tail(inflight))
                 /\ out.err = "ok"
                 /\ out.msgs = <<>>
                 /\ out.proposals = [proposals EXCEPT ![p].status = "execution_failed"]
                 /\ out.proposal_hooks = proposal_hooks
                 /\ out.vote_hooks = vote_hooks
                 /\ out.ballots = ballots
    /\ \A p \in DOMAIN proposals :
          proposals[p].status = "execution_failed"
              => /\ refunds[p] = execute_refund_message(proposals[p])
                 /\ \A s \in Senders : execute_execute(s, p).err # "ok"

(* the batch has failed and the reply has marked the proposal, while the   *)
(* status-changed hooks of the committed Execute are still being delivered *)
C8_Witness ==
    \E p \in DOMAIN proposals :
        /\ proposals[p].status = "execution_failed"
        /\ refunds[p] # <<>>
        /\ result.op = "reply"
        /\ StatusHooks(inflight) # <<>>

(* C9: without close_proposal_on_execution_failure the batch of a           *)
(* successful Execute is a plain message, so that its failure fails the     *)
(* Execute; after an Execute aborted in this way the proposal's status is   *)
(* still Passed, its deposit is still held, no refund has been paid, no     *)
(* hook is being delivered, and Execute on it can still succeed.            *)
C9_AbortedExecute ==
    /\ \A p \in DOMAIN proposals, s \in Senders :
          LET out == execute_execute(s, p)
          IN  (out.err = "ok" /\ ~config.close_proposal_on_execution_failure)
                 => \A i \in 1..Len(out.msgs) :
                       IsBatch(out.msgs[i]) => ~IsSubMsg(out.msgs[i])
    /\ result.op = "aborted"
          => LET p == result.proposal_id
             IN  /\ ~config.close_proposal_on_execution_failure
                 /\ proposals[p].status \in {"open", "passed"}
                 /\ Status(p) = "passed"
                 /\ refunds[p] = <<>>
                 /\ bal["module"] >= DepositAmount(p)
                 /\ inflight = <<>>
                 /\ \E s \in Senders : execute_execute(s, p).err = "ok"

(* an Execute has just been aborted by its batch on a proposal with a      *)
(* deposit, while a subscriber of the proposal hooks is registered         *)
C9_Witness ==
    /\ result.op = "aborted"
    /\ DepositAmount(result.proposal_id) > 0
    /\ proposal_hooks # <<>>
    /\ attempts[result.proposal_id] = 1

(* C10 as stated: Execute on an ExecutionFailed proposal is accepted and    *)
(* sends the winning choice's batch again.                                  *)
C10_ReExecutable ==
    \A p \in DOMAIN proposals :
        proposals[p].status = "execution_failed"
            => \E s \in Senders :
                  /\ execute_execute(s, p).err = "ok"
                  /\ HasBatch(execute_execute(s, p).msgs)

(* C10: ExecutionFailed is final for Execute: every Execute on such a       *)
(* proposal is refused, with NotPassed for a sender allowed to execute, and *)
(* it writes and sends nothing.                                             *)
C10_ExecutionFailedIsFinal ==
    \A p \in DOMAIN proposals :
        proposals[p].status = "execution_failed"
            => \A s \in Senders :
                  /\ execute_execute(s, p).err =
                        IF may_execute(s) THEN "NotPassed" ELSE "Unauthorized"
                  /\ execute_execute(s, p).msgs = <<>>
                  /\ execute_execute(s, p).proposals = proposals

(* a member's Execute on an ExecutionFailed proposal is refused *)
C10_Witness ==
    \E p \in DOMAIN proposals :
        /\ proposals[p].status = "execution_failed"
        /\ inflight = <<>>
        /\ execute_execute("alice", p).err = "NotPassed"

(* the handler left the configuration and both registries as they are *)
AdminUntouched(out) ==
    /\ out.config = config
    /\ out.proposal_hooks = proposal_hooks
    /\ out.vote_hooks = vote_hooks

AdminCalls(s) ==
    {execute_update_config(s, msg) : msg \in ConfigMsgs}
    \cup {execute_add_proposal_hook(s, a) : a \in HookAddrs}
    \cup {execute_remove_proposal_hook(s, a) : a \in HookAddrs}
    \cup {execute_add_vote_hook(s, a) : a \in HookAddrs}
    \cup {execute_remove_vote_hook(s, a) : a \in HookAddrs}

(* C11: UpdateConfig and the four hook operations succeed only for the     *)
(* sender that is the DAO of the current configuration; for any other      *)
(* sender, the DAO of an earlier configuration included, each fails with   *)
(* Unauthorized and writes neither the configuration nor a hook registry.  *)
C11_OnlyCurrentDao ==
    \A s \in Senders :
        \A out \in AdminCalls(s) :
            /\ out.err = "ok" => s = config.dao
            /\ s # config.dao => out.err = "Unauthorized" /\ AdminUntouched(out)

(* the DAO was changed by UpdateConfig: the previous DAO can no longer     *)
(* remove a registered hook or update the configuration, the new one can   *)
C11_Witness ==
    /\ config.dao = "dao2"
    /\ proposal_hooks # <<>>
    /\ execute_remove_proposal_hook("dao", proposal_hooks[1]).err = "Unauthorized"
    /\ execute_remove_proposal_hook("dao2", proposal_hooks[1]).err = "ok"
    /\ execute_update_config("dao", HooksConfigMsg).err = "Unauthorized"
    /\ execute_update_config("dao2", HooksConfigMsg).err = "ok"

(* the step commits handler result out: its writes, its transfers and its  *)
(* sub-messages, all of them                                               *)
Commits(out) ==
    /\ out.err = "ok"
    /\ config' = out.config
    /\ proposals' = out.proposals
    /\ ballots' = out.ballots
    /\ proposal_count' = out.proposal_count
    /\ proposal_hooks' = out.proposal_hooks
    /\ vote_hooks' = out.vote_hooks
    /\ bal' = run_transfers(bal, out.msgs).bal
    /\ inflight' = SelectSeq(out.msgs, IsSubMsg)

SizeInputs == {MAX_PROPOSAL_SIZE, MAX_PROPOSAL_SIZE + 1}

CommitsSomeCall ==
    \/ \E s \in Senders, options \in OptionInputs, size \in SizeInputs, active \in BOOLEAN :
          Commits(execute_propose(s, options, size, active))
    \/ \E s \in Senders, p \in ProposalIds, v \in VoteInputs : Commits(execute_vote(s, p, v))
    \/ \E s \in Senders, p \in ProposalIds : Commits(execute_execute(s, p))
    \/ \E s \in Senders, p \in ProposalIds : Commits(execute_close(s, p))
    \/ \E s \in Senders : \E out \in AdminCalls(s) : Commits(out)

IsHookDelivery(m) == m.kind \in {"new_proposal", "status_changed", "vote"}

IsVoteHook(m) == m.kind = "vote"

(* the registry a delivery was made from, now and when the pending         *)
(* transaction began, and as a reply result leaves it                      *)
RegistryOf(m) == IF IsVoteHook(m) THEN vote_hooks ELSE proposal_hooks

RegistryAtDispatch(m) == IF IsVoteHook(m) THEN unwrap(tx_start)[6] ELSE unwrap(tx_start)[5]

RegistryIn(out, m) == IF IsVoteHook(m) THEN out.vote_hooks ELSE out.proposal_hooks

OtherRegistryKept(out, m) ==
    IF IsVoteHook(m) THEN out.proposal_hooks = proposal_hooks
    ELSE out.vote_hooks = vote_hooks

Without(hooks, addr) == SelectSeq(hooks, LAMBDA a : a # addr)

(* the reply to the failure of delivery m removes the subscriber m was     *)
(* sent to, nobody else, and fails nothing                                 *)
RemovesItsSubscriber(m) ==
    LET out == reply(m.reply_id)
    IN  /\ out.err = "ok"
        /\ Contains(RegistryOf(m), m.to)
        /\ RegistryIn(out, m) = Without(RegistryOf(m), m.to)
        /\ OtherRegistryKept(out, m)
        /\ out.proposals = proposals
        /\ out.ballots = ballots
        /\ out.proposal_count = proposal_count
        /\ out.config = config
        /\ out.msgs = <<>>

C14_RemovesExactlyTheFailed ==
    (inflight # <<>> /\ IsHookDelivery(Head(inflight)))
        => RemovesItsSubscriber(Head(inflight))

RefundPolicies == {"Always", "Never", "OnlyPassed"}

Denoms == {"ujuno", "unknown"}

(* the configuration messages with their deposit replaced by one of amount 0 *)
ZeroDepositMsgs ==
    { [msg EXCEPT !.deposit_info =
                     Some([denom |-> d, amount |-> 0, refund_policy |-> policy])] :
        msg \in ConfigMsgs, d \in Denoms, policy \in RefundPolicies }

(* C15: a configuration whose deposit has amount 0 is refused at           *)
(* instantiation and by UpdateConfig, whatever the denomination and the    *)
(* refund policy: with the zero-deposit error once the sender and the      *)
(* voting strategy have been accepted, and nothing is stored; so the       *)
(* stored configuration has no deposit or one of a positive amount.        *)
C15_ZeroDepositRefused ==
    /\ \A msg \in ZeroDepositMsgs, s \in Senders :
          /\ instantiate(s, msg).err # "ok"
          /\ strategy_valid(msg.voting_strategy) => instantiate(s, msg).err = "ZeroDeposit"
          /\ execute_update_config(s, msg).err # "ok"
          /\ execute_update_config(s, msg).config = config
          /\ (s = config.dao /\ strategy_valid(msg.voting_strategy))
                => execute_update_config(s, msg).err = "ZeroDeposit"
    /\ is_some(config.deposit_info) => unwrap(config.deposit_info).amount > 0

(* the DAO of a module that has taken a new configuration with a deposit   *)
(* asks for one of amount 0 under OnlyPassed, and for none at all          *)
C15_Witness ==
    /\ result.op = "update_config"
    /\ is_some(config.deposit_info)
    /\ execute_update_config(config.dao,
          [config EXCEPT !.deposit_info = Deposit(0, "OnlyPassed")]).err = "ZeroDeposit"
    /\ execute_update_config(config.dao, [config EXCEPT !.deposit_info = None]).err = "ok"

(* C16: a proposal carries the deposit configuration of the moment of its  *)
(* Propose; no step changes the deposit info of an existing proposal,      *)
(* whatever UpdateConfig does to the module's; and what is paid out for a  *)
(* resolved proposal is the amount of its own deposit info, to the         *)
(* recipient its own refund policy names.                                  *)
C16_DepositInfoSnapshot ==
    /\ [](result.op = "propose"
            => proposals[proposal_count].deposit_info = config.deposit_info)
    /\ [](\A p \in DOMAIN proposals :
            refunds[p] # <<>>
                => /\ is_some(proposals[p].deposit_info)
                   /\ SumAmounts(refunds[p]) = DepositAmount(p)
                   /\ RefundedToProposer(p) => refunds[p][1].to = proposals[p].proposer
                   /\ ~RefundedToProposer(p) => refunds[p][1].to \in DaoAddrs)
    /\ [][\A p \in DOMAIN proposals :
            /\ p \in DOMAIN proposals'
            /\ proposals'[p].deposit_info = proposals[p].deposit_info]_vars

(* a proposal made under a deposit of one amount was resolved after an     *)
(* UpdateConfig to a deposit of another amount and policy, and its own     *)
(* amount was paid out                                                     *)
C16_Witness ==
    \E p \in DOMAIN proposals :
        /\ is_some(proposals[p].deposit_info)
        /\ is_some(config.deposit_info)
        /\ unwrap(config.deposit_info).amount # DepositAmount(p)
        /\ unwrap(config.deposit_info).refund_policy
              # unwrap(proposals[p].deposit_info).refund_policy
        /\ proposals[p].status \in Final
        /\ SumAmounts(refunds[p]) = DepositAmount(p)

(* C17: the stored proposal ids are exactly 1..proposal_count; the counter *)
(* moves only by one, with the commit of a Propose, whose proposal is      *)
(* stored under the new count; a Propose that fails leaves the counter;    *)
(* and no proposal is removed or stored again under another proposer or    *)
(* start.                                                                  *)
C17_ProposalIds ==
    /\ [](DOMAIN proposals = 1..proposal_count)
    /\ [][/\ proposal_count' \in {proposal_count, proposal_count + 1}
          /\ proposal_count' = proposal_count + 1
                => /\ result'.op = "propose"
                   /\ proposals'[proposal_count'].start_height = now
                   /\ proposals'[proposal_count'].votes = zero(Len(MixedOptions))
          /\ \A p \in DOMAIN proposals :
                /\ p \in DOMAIN proposals'
                /\ proposals'[p].proposer = proposals[p].proposer
                /\ proposals'[p].start_height = proposals[p].start_height]_vars

(* the third proposal of a module, made after the first two by different   *)
(* proposers at different heights, and with the funds left a Propose that  *)
(* would fail for its size after advancing the counter                     *)
C17_Witness ==
    /\ proposal_count = 3
    /\ result.op = "propose"
    /\ proposals[1].proposer # proposals[2].proposer
    /\ proposals[2].start_height < proposals[3].start_height
    /\ execute_propose("alice", MixedOptions, MAX_PROPOSAL_SIZE + 1, TRUE).proposal_count = 4

(* the ballots of out are those of the state with the sender's replaced *)
OnlyBallotReplaced(out, p, s, v) ==
    /\ DOMAIN out.ballots = DOMAIN ballots
    /\ out.ballots[<<p, s>>].vote = v
    /\ out.ballots[<<p, s>>].power = get_voting_power(s, proposals[p].start_height)
    /\ \A k \in DOMAIN ballots : k # <<p, s>> => out.ballots[k] = ballots[k]

(* C18: a voter has one ballot per proposal, on a proposal that exists and *)
(* with a weight. A further Vote of that voter on a proposal that does not *)
(* allow revoting never succeeds: it fails with AlreadyVoted when the      *)
(* choice is in range and the proposal open, and writes neither ballot nor *)
(* tally; on a proposal that allows revoting a successful Vote of that     *)
(* voter replaces the ballot and adds none.                                *)
C18_OneBallotPerVoter ==
    /\ \A k \in DOMAIN ballots :
          /\ k[1] \in DOMAIN proposals
          /\ k[2] \in Senders
          /\ ballots[k].power > 0
          /\ vote_in_range(proposals[k[1]], ballots[k].vote)
    /\ \A p \in DOMAIN proposals, s \in Senders, v \in VoteInputs :
          HasBallot(p, s)
              => LET out == execute_vote(s, p, v)
                 IN  IF proposals[p].allow_revoting
                     THEN out.err = "ok" => OnlyBallotReplaced(out, p, s, v)
                     ELSE /\ out.err # "ok"
                          /\ out.ballots = ballots
                          /\ out.proposals = proposals
                          /\ (vote_in_range(proposals[p], v) /\ Status(p) = "open")
                                => out.err = "AlreadyVoted"

(* a voter with a ballot on an open proposal without revoting asks for the *)
(* other choice                                                            *)
C18_Witness ==
    \E p \in DOMAIN proposals :
        /\ ~proposals[p].allow_revoting
        /\ Status(p) = "open"
        /\ HasBallot(p, "alice")
        /\ execute_vote("alice", p, 1 - ballots[<<p, "alice">>].vote).err = "AlreadyVoted"

(* C19: on a proposal that allows revoting and is open, a Vote by a voter  *)
(* whose ballot names the same choice fails with AlreadyCast and writes    *)
(* neither the ballot nor the tally nor the status.                        *)
C19_AlreadyCast ==
    \A p \in DOMAIN proposals, s \in Senders :
        (HasBallot(p, s) /\ proposals[p].allow_revoting /\ Status(p) = "open")
            => LET out == execute_vote(s, p, ballots[<<p, s>>].vote)
               IN  /\ out.err = "AlreadyCast"
                   /\ out.ballots = ballots
                   /\ out.proposals = proposals
                   /\ out.msgs = <<>>

(* a voter who has moved to another choice by a revote casts it again *)
C19_Witness ==
    /\ result.op = "vote"
    /\ result.note = "revote"
    /\ \E p \in DOMAIN proposals, s \in Senders :
          /\ HasBallot(p, s)
          /\ proposals[p].allow_revoting
          /\ Status(p) = "open"
          /\ execute_vote(s, p, ballots[<<p, s>>].vote).err = "AlreadyCast"

PowerAtCreation(s, p) == get_voting_power(s, proposals[p].start_height)

(* C21: a Vote on an id that names no proposal fails with NoSuchProposal;  *)
(* on a proposal, with InvalidVote for a choice out of range, else with    *)
(* NotOpen unless the status at the current block is Open, else with       *)
(* NotRegistered if the voter's power at the proposal's creation height is *)
(* zero; it succeeds only past these four, and the ballot it stores, like  *)
(* every stored ballot, weighs the power at the creation height, whatever  *)
(* the voter's power at the block of the vote.                             *)
C21_VotePreconditions ==
    /\ \A p \in ProposalIds, s \in Senders, v \in VoteInputs :
          LET out == execute_vote(s, p, v)
          IN  IF p \notin DOMAIN proposals THEN out.err = "NoSuchProposal"
              ELSE IF ~(v < Len(proposals[p].choices)) THEN out.err = "InvalidVote"
              ELSE IF Status(p) # "open" THEN out.err = "NotOpen"
              ELSE IF PowerAtCreation(s, p) = 0 THEN out.err = "NotRegistered"
              ELSE /\ out.err \in {"ok", "AlreadyVoted", "AlreadyCast"}
                   /\ out.err = "ok"
                         => out.ballots[<<p, s>>] =
                               [power |-> PowerAtCreation(s, p), vote |-> v]
    /\ \A k \in DOMAIN ballots : ballots[k].power = PowerAtCreation(k[2], k[1])

(* a voter who has lost all power since the proposal was made has voted,   *)
(* and the ballot weighs the power held when the proposal was made, while  *)
(* a proposal made now would not register that voter                       *)
C21_Witness ==
    /\ result.op = "vote"
    /\ \E p \in DOMAIN proposals :
          /\ result.proposal_id = p
          /\ HasBallot(p, "bob")
          /\ get_voting_power("bob", now) = 0
          /\ ballots[<<p, "bob">>].power = 1
          /\ proposals[p].votes[ballots[<<p, "bob">>].vote + 1] >= 1
          /\ execute_vote("dao", p, 0).err \in {"NotRegistered", "NotOpen"}
          /\ execute_vote("alice", p + 1, 0).err = "NoSuchProposal"

(* C22: a Propose fails with InactiveDao when the voting module reports    *)
(* inactive, whoever the sender; else, with open_proposal_submission       *)
(* disabled, with MustHaveVotingPower for a sender without voting power at *)
(* the current height; with open_proposal_submission enabled such a sender *)
(* creates a proposal like any other. A Propose that fails stores no       *)
(* proposal and asks for no deposit, and a proposal stored while its       *)
(* submission was restricted had a proposer with power.                    *)
C22_ProposePreconditions ==
    /\ \A s \in Senders, options \in OptionInputs, size \in SizeInputs, active \in BOOLEAN :
          LET out == execute_propose(s, options, size, active)
              powerless == get_voting_power(s, now) = 0
          IN  /\ ~active => out.err = "InactiveDao"
              /\ (active /\ ~config.open_proposal_submission /\ powerless)
                    => out.err = "MustHaveVotingPower"
              /\ (active /\ config.open_proposal_submission /\ Len(options) >= 2
                    /\ size <= MAX_PROPOSAL_SIZE)
                    => /\ out.err = "ok"
                       /\ out.proposals[proposal_count + 1].proposer = s
              /\ out.err # "ok" => out.proposals = proposals /\ out.msgs = <<>>
    /\ (result.op = "propose" /\ ~config.open_proposal_submission)
          => get_voting_power(proposals[proposal_count].proposer, now) > 0

(* a sender without voting power has made a proposal under open            *)
(* submission and paid its deposit; the DAO has since closed submission,   *)
(* and the same sender is now refused                                      *)
C22_Witness ==
    /\ result.op = "update_config"
    /\ ~config.open_proposal_submission
    /\ \E p \in DOMAIN proposals :
          LET s == proposals[p].proposer
          IN  /\ get_voting_power(s, proposals[p].start_height) = 0
              /\ bal[s] < InitialBalance[s]
              /\ execute_propose(s, MixedOptions, MAX_PROPOSAL_SIZE, TRUE).err
                    = "MustHaveVotingPower"
              /\ execute_propose(s, MixedOptions, MAX_PROPOSAL_SIZE, FALSE).err
                    = "InactiveDao"

(* C23: with only_members_execute set in the current configuration, an     *)
(* Execute by a sender without voting power at the current height fails    *)
(* with Unauthorized, on a Passed proposal as on any other id, and writes  *)
(* and sends nothing, while a sender with power executes a Passed          *)
(* proposal; with the flag unset every sender executes a Passed proposal.  *)
C23_OnlyMembersExecute ==
    \A p \in ProposalIds, s \in Senders :
        LET out == execute_execute(s, p)
            passed == p \in DOMAIN proposals /\ Status(p) = "passed"
        IN  IF config.only_members_execute /\ get_voting_power(s, now) = 0
            THEN /\ out.err = "Unauthorized"
                 /\ out.proposals = proposals
                 /\ out.msgs = <<>>
            ELSE passed => out.err = "ok" /\ out.proposals[p].status = "executed"

(* a Passed proposal under only_members_execute: the DAO itself and a      *)
(* former member are refused, a member is not                              *)
C23_Witness ==
    /\ config.only_members_execute
    /\ \E p \in DOMAIN proposals :
          /\ Status(p) = "passed"
          /\ execute_execute("dao", p).err = "Unauthorized"
          /\ execute_execute("bob", p).err = "Unauthorized"
          /\ get_voting_power("bob", proposals[p].start_height) > 0
          /\ execute_execute("alice", p).err = "ok"

VoteHooks(msgs) == SelectSeq(msgs, IsVoteHook)

(* the addresses a sequence of messages is sent to, in order *)
Recipients(msgs) == [i \in 1..Len(msgs) |-> msgs[i].to]

(* C24: the response of every successful Vote holds one vote-cast          *)
(* notification for each subscriber of the vote hooks, about the proposal  *)
(* voted on; it holds one status-changed notification for each subscriber  *)
(* of the proposal hooks if the status the Vote stores differs from the    *)
(* status stored before, and none if it is the same; and nothing else. The *)
(* response a committed Vote has left is of this kind.                     *)
C24_VoteNotifications ==
    /\ \A p \in DOMAIN proposals, s \in Senders, v \in VoteInputs :
          LET out == execute_vote(s, p, v)
          IN  out.err = "ok"
                 => /\ Recipients(VoteHooks(out.msgs)) = vote_hooks
                    /\ Recipients(StatusHooks(out.msgs)) =
                          IF out.proposals[p].status # proposals[p].status
                          THEN proposal_hooks ELSE <<>>
                    /\ \A i \in 1..Len(out.msgs) :
                          /\ out.msgs[i].kind \in {"vote", "status_changed"}
                          /\ out.msgs[i].proposal_id = p
                          /\ IsSubMsg(out.msgs[i])
    /\ result.op = "vote"
          => /\ Recipients(VoteHooks(result.msgs)) = vote_hooks
             /\ Recipients(StatusHooks(result.msgs)) =
                   IF proposals[result.proposal_id].status # "open"
                   THEN proposal_hooks ELSE <<>>

(* a Vote has moved a proposal from Open to Passed with subscribers of     *)
(* both kinds registered, after an earlier Vote that left it Open          *)
C24_Witness ==
    /\ result.op = "vote"
    /\ proposals[result.proposal_id].status = "passed"
    /\ total(proposals[result.proposal_id].votes) = 2
    /\ Len(proposal_hooks) = 2
    /\ vote_hooks # <<>>
    /\ Len(StatusHooks(result.msgs)) = 2

NoDuplicates(hooks) ==
    \A i, j \in 1..Len(hooks) : hooks[i] = hooks[j] => i = j

(* C25: neither hook registry ever holds an address twice, whatever adds,  *)
(* removes and removals by failure replies came before. Adding an address  *)
(* that is present fails and removing one that is absent fails with        *)
(* HookNotFound, by the registry and by the DAO's operation alike, and the *)
(* registry is left as it is; adding an absent address appends it and      *)
(* removing a present one takes just it out.                               *)
C25_HookRegistries ==
    /\ NoDuplicates(proposal_hooks)
    /\ NoDuplicates(vote_hooks)
    /\ \A hooks \in {proposal_hooks, vote_hooks}, a \in HookAddrs :
          IF Contains(hooks, a)
          THEN /\ add_hook(hooks, a).err # "ok"
               /\ add_hook(hooks, a).hooks = hooks
               /\ remove_hook(hooks, a).err = "ok"
               /\ remove_hook(hooks, a).hooks = Without(hooks, a)
          ELSE /\ remove_hook(hooks, a).err = "HookNotFound"
               /\ remove_hook(hooks, a).hooks = hooks
               /\ add_hook(hooks, a).err = "ok"
               /\ add_hook(hooks, a).hooks = Append(hooks, a)
    /\ \A a \in HookAddrs :
          /\ Contains(proposal_hooks, a)
                => /\ execute_add_proposal_hook(config.dao, a).err # "ok"
                   /\ AdminUntouched(execute_add_proposal_hook(config.dao, a))
          /\ Contains(vote_hooks, a)
                => /\ execute_add_vote_hook(config.dao, a).err # "ok"
                   /\ AdminUntouched(execute_add_vote_hook(config.dao, a))
          /\ ~Contains(proposal_hooks, a)
                => /\ execute_remove_proposal_hook(config.dao, a).err = "HookNotFound"
                   /\ AdminUntouched(execute_remove_proposal_hook(config.dao, a))
          /\ ~Contains(vote_hooks, a)
                => /\ execute_remove_vote_hook(config.dao, a).err = "HookNotFound"
                   /\ AdminUntouched(execute_remove_vote_hook(config.dao, a))

(* a failure reply has taken the first of two subscribers out of the       *)
(* proposal hooks: the one left cannot be added again, the one removed     *)
(* cannot be removed again                                                 *)
C25_Witness ==
    /\ result.op = "reply"
    /\ is_some(tx_start)
    /\ Len(unwrap(tx_start)[5]) = 2
    /\ Len(proposal_hooks) = 1
    /\ proposal_hooks[1] = unwrap(tx_start)[5][2]
    /\ add_hook(proposal_hooks, proposal_hooks[1]).err # "ok"
    /\ remove_hook(proposal_hooks, unwrap(tx_start)[5][1]).err = "HookNotFound"

(* proposal ids and subscriber indexes a reply id may carry *)
ReplyValues == 0..MaxReplyValue

Decoded(kind, value) == [kind |-> kind, value |-> value]

(* the subscriber at 0-based index i of the registry delivery m was made from *)
DispatchedTo(m, i) ==
    /\ i < Len(RegistryAtDispatch(m))
    /\ RegistryAtDispatch(m)[i + 1] = m.to

(* C26: reply identifiers do not collide. The id issued for the failed     *)
(* execution of a proposal decodes to FailedProposalExecution of that      *)
(* proposal id, the id issued for a subscriber index of the proposal hooks *)
(* or of the vote hooks decodes to that kind and that index; ids of        *)
(* different causes, and of different proposals or indexes of one cause,   *)
(* are different; and every sub-message awaiting its outcome carries an id *)
(* that decodes to its own cause: a batch to its proposal, a notification  *)
(* to the registry it was made from and to the index its subscriber had at *)
(* the dispatch.                                                           *)
C26_ReplyIdsDistinct ==
    /\ \A n \in ReplyValues :
          /\ TaggedReplyId(mask_proposal_execution_proposal_id(n))
                = Decoded("FailedProposalExecution", n)
          /\ TaggedReplyId(mask_proposal_hook_index(n)) = Decoded("FailedProposalHook", n)
          /\ TaggedReplyId(mask_vote_hook_index(n)) = Decoded("FailedVoteHook", n)
    /\ \A a, b \in ReplyValues :
          /\ mask_proposal_execution_proposal_id(a) # mask_proposal_hook_index(b)
          /\ mask_proposal_execution_proposal_id(a) # mask_vote_hook_index(b)
          /\ mask_proposal_hook_index(a) # mask_vote_hook_index(b)
          /\ a # b => /\ mask_proposal_execution_proposal_id(a)
                            # mask_proposal_execution_proposal_id(b)
                      /\ mask_proposal_hook_index(a) # mask_proposal_hook_index(b)
                      /\ mask_vote_hook_index(a) # mask_vote_hook_index(b)
    /\ \A i \in 1..Len(inflight) :
          LET m == inflight[i]
              repl == TaggedReplyId(m.reply_id)
          IN  /\ IsBatch(m)
                    => repl = Decoded("FailedProposalExecution", m.proposal_id)
              /\ IsVoteHook(m)
                    => repl.kind = "FailedVoteHook" /\ DispatchedTo(m, repl.value)
              /\ (IsHookDelivery(m) /\ ~IsVoteHook(m))
                    => repl.kind = "FailedProposalHook" /\ DispatchedTo(m, repl.value)

(* an Execute has dispatched the batch of proposal 1 and a status-changed  *)
(* notification to each of two subscribers: three ids, three causes, the   *)
(* index of the second subscriber being the number of the proposal         *)
C26_Witness ==
    /\ Len(inflight) = 3
    /\ IsBatch(inflight[1])
    /\ TaggedReplyId(inflight[1].reply_id) = Decoded("FailedProposalExecution", 1)
    /\ TaggedReplyId(inflight[2].reply_id) = Decoded("FailedProposalHook", 0)
    /\ TaggedReplyId(inflight[3].reply_id) = Decoded("FailedProposalHook", 1)
    /\ inflight[3].to = proposal_hooks[2]

ResponseIds(response) == [i \in 1..Len(response) |-> response[i].id]

(* the stored ids greater than the cursor, ascending: ids are 1, 2, ...   *)
IdsAfter(start_after) ==
    LET x == unwrap_or(start_after, 0)
    IN  [i \in 1..(IF proposal_count > x THEN proposal_count - x ELSE 0) |-> x + i]

(* the pages a caller gets who asks again from the last id of each page *)
RECURSIVE Pages(_, _)
Pages(start_after, limit) ==
    LET page == ResponseIds(query_list_proposals(start_after, limit))
    IN  IF page = <<>> THEN <<>>
        ELSE page \o Pages(Some(page[Len(page)]), limit)

(* C27: pagination consistency. For every store of proposals, every cursor *)
(* X and every page size N of at least one (the default when none is       *)
(* given), ListProposals from X returns the first N stored ids greater     *)
(* than X in ascending order, or all of them if they are fewer; the page   *)
(* asked for from the last id returned continues just after it, so that    *)
(* two successive pages are the first 2N such ids without overlap or gap,  *)
(* and all successive pages together are the ascending list of the stored  *)
(* ids greater than X.                                                     *)
C27_PaginationConsistency ==
    /\ DOMAIN proposals = 1..proposal_count
    /\ \A X \in Cursors, N \in Limits :
          LET n == unwrap_or(N, DEFAULT_LIMIT)
              all == IdsAfter(X)
              page == ResponseIds(query_list_proposals(X, N))
              next == ResponseIds(query_list_proposals(Some(page[Len(page)]), N))
          IN  n >= 1
                 => /\ page = take(all, n)
                    /\ page # <<>> => page \o next = take(all, 2 * n)
                    /\ Pages(X, N) = all

(* with three proposals stored, a caller has read the first page of the    *)
(* default size and now holds the second, which is the third proposal      *)
C27_Witness ==
    /\ proposal_count = 3
    /\ result.op = "list_proposals"
    /\ ResponseIds(query_list_proposals(None, None)) = <<1, 2>>
    /\ result.msgs = query_list_proposals(Some(2), None)
    /\ ResponseIds(result.msgs) = <<3>>

(* C28 as stated: whatever limit is asked for, one larger than the default *)
(* included, ListProposals returns at most DEFAULT_LIMIT proposals.        *)
C28_PageSizeBounded ==
    \A X \in Cursors, N \in Limits :
        Len(query_list_proposals(X, N)) <= DEFAULT_LIMIT

QueryOps == {"query_proposal", "list_proposals", "reverse_proposals"}

(* the entry reports proposal id as stored, but for the status, which is   *)
(* the one the tally and the current block give                            *)
ReportsCurrent(entry) ==
    /\ entry.id \in DOMAIN proposals
    /\ entry.proposal = [proposals[entry.id] EXCEPT !.status = Status(entry.id)]
    /\ proposals[entry.id].status # "open" => entry.proposal.status = proposals[entry.id].status
    /\ (proposals[entry.id].status = "open" /\ is_passed(proposals[entry.id], now))
          => entry.proposal.status = "passed"
    /\ (proposals[entry.id].status = "open" /\ ~is_passed(proposals[entry.id], now)
          /\ is_expired(proposals[entry.id].expiration, now))
          => entry.proposal.status = "rejected"

(* C29: the Proposal, ListProposals and ReverseProposals queries report    *)
(* for every proposal the status derived at the block of the query from    *)
(* the tally and the voting periods: a proposal stored as Open is reported *)
(* Passed or Rejected once the block makes it so, while a stored Passed,   *)
(* Rejected, Executed, ExecutionFailed or Closed is reported as stored;    *)
(* and a query writes nothing: the store and the block are the same after  *)
(* it.                                                                     *)
C29_QueriesReportCurrentStatus ==
    /\ [](/\ \A id \in DOMAIN proposals :
                /\ query_proposal(id).err = "ok"
                /\ query_proposal(id).response[1].id = id
                /\ ReportsCurrent(query_proposal(id).response[1])
          /\ \A X \in Cursors, N \in Limits :
                /\ \A i \in 1..Len(query_list_proposals(X, N)) :
                      ReportsCurrent(query_list_proposals(X, N)[i])
                /\ \A i \in 1..Len(query_reverse_proposals(X, N)) :
                      ReportsCurrent(query_reverse_proposals(X, N)[i]))
    /\ [][result'.op \in QueryOps
             => /\ UNCHANGED <<store, now, inflight, attempts>>
                /\ \A i \in 1..Len(result'.msgs) : ReportsCurrent(result'.msgs[i])]_vars

(* a listing has reported one proposal Passed and one Rejected that are    *)
(* both stored as Open, and a closed one as Closed                         *)
C29_Witness ==
    /\ result.op = "list_proposals"
    /\ Len(result.msgs) = 3
    /\ \E i, j, k \in 1..3 :
          /\ result.msgs[i].proposal.status = "passed"
          /\ proposals[result.msgs[i].id].status = "open"
          /\ result.msgs[j].proposal.status = "rejected"
          /\ proposals[result.msgs[j].id].status = "open"
          /\ result.msgs[k].proposal.status = "closed"

Expired(p) == is_expired(proposals[p].expiration, now)

(* C30: no winner is picked for a proposal whose leading choices are tied: *)
(* it is never Passed, Executed or ExecutionFailed; once its expiration is *)
(* reached and until it is closed its status is Rejected, and a Close by   *)
(* any sender succeeds and writes Closed. When the blocks go on, every     *)
(* proposal reaches its expiration, and when Close is called at some time  *)
(* on what can be closed, every proposal tied at its expiration ends up    *)
(* Closed, and stays so.                                                   *)
C30_TiedEndsClosed ==
    /\ [](\A p \in DOMAIN proposals :
            Tied(p)
               => /\ Status(p) \notin {"passed", "executed", "execution_failed"}
                  /\ \A s \in Senders : execute_execute(s, p).err # "ok"
                  /\ (Expired(p) /\ proposals[p].status # "closed")
                        => /\ Status(p) = "rejected"
                           /\ \A s \in Senders :
                                 /\ execute_close(s, p).err = "ok"
                                 /\ execute_close(s, p).proposals[p].status = "closed")
    /\ \A p \in ProposalIds :
          /\ (p \in DOMAIN proposals) ~> (p \in DOMAIN proposals /\ Expired(p))
          /\ (p \in DOMAIN proposals /\ Tied(p) /\ Expired(p))
                ~> [](p \in DOMAIN proposals /\ Tied(p) /\ proposals[p].status = "closed")

(* a proposal on which two choices hold the same positive weight has       *)
(* expired and has been closed                                             *)
C30_Witness ==
    /\ result.op = "close"
    /\ \E p \in DOMAIN proposals :
          /\ result.proposal_id = p
          /\ Tied(p)
          /\ total(proposals[p].votes) > 0
          /\ proposals[p].status = "closed"
          /\ Expired(p)

Batches(msgs) == SelectSeq(msgs, IsBatch)

(* the choices of p that hold more weight than every other choice *)
Leading(p) ==
    {i \in 1..Len(proposals[p].votes) :
        \A j \in 1..Len(proposals[p].votes) :
            j # i => proposals[p].votes[i] > proposals[p].votes[j]}

(* the handler results of the calls other than Execute, and of the replies *)
OtherCalls ==
    {execute_propose(s, options, size, active) :
        s \in Senders, options \in OptionInputs, size \in SizeInputs, active \in BOOLEAN}
    \cup {execute_vote(s, p, v) : s \in Senders, p \in ProposalIds, v \in VoteInputs}
    \cup {execute_close(s, p) : s \in Senders, p \in ProposalIds}
    \cup UNION {AdminCalls(s) : s \in Senders}
    \cup {reply(id) : id \in 0..mask_proposal_execution_proposal_id(MaxProposals + 2)}

(* C31: the response of every successful Execute holds at most one         *)
(* ExecuteProposalHook request; the proposal then has a single leading     *)
(* choice, and if that choice has a non-empty list of messages the         *)
(* response holds one request, sent to the DAO of the current              *)
(* configuration, with exactly that list, and if the choice has no list or *)
(* an empty one it holds none. No other call and no reply returns such a   *)
(* request, and a response that carried one was that of an Execute.        *)
C31_OneBatchToTheDao ==
    /\ \A p \in DOMAIN proposals, s \in Senders :
          LET out == execute_execute(s, p)
              batches == Batches(out.msgs)
              winner == proposals[p].choices[CHOOSE i \in Leading(p) : TRUE]
          IN  out.err = "ok"
                 => /\ Cardinality(Leading(p)) = 1
                    /\ IF is_some(winner.msgs) /\ unwrap(winner.msgs) # <<>>
                       THEN /\ Len(batches) = 1
                            /\ batches[1].to = config.dao
                            /\ batches[1].payload = unwrap(winner.msgs)
                            /\ batches[1].proposal_id = p
                       ELSE batches = <<>>
    /\ \A out \in OtherCalls : ~HasBatch(out.msgs)
    /\ HasBatch(result.msgs) => result.op = "execute"
    /\ \A i \in 1..Len(inflight) : IsBatch(inflight[i]) => result.op = "execute" /\ i = 1

(* an Execute has sent the two messages of the winning choice to the DAO   *)
(* that an UpdateConfig has named, and an Execute of a proposal won by a   *)
(* choice with an empty list would send nothing                            *)
C31_Witness ==
    /\ result.op = "execute"
    /\ config.dao = "dao2"
    /\ Len(Batches(result.msgs)) = 1
    /\ Batches(result.msgs)[1].to = "dao2"
    /\ Batches(result.msgs)[1].payload = <<"m1", "m2">>
    /\ proposals[result.proposal_id].choices[2].msgs = Some(<<>>)

(* the deposits of the proposals of ps that no Execute or Close has resolved *)
RECURSIVE Unresolved(_)
Unresolved(ps) ==
    IF ps = {} THEN 0
    ELSE LET p == CHOOSE x \in ps : TRUE
         IN  (IF proposals[p].status \in Final THEN 0 ELSE DepositAmount(p))
             + Unresolved(ps \ {p})

(* the step has paid out of the module: it is the Execute or Close that    *)
(* resolves one proposal, and what it pays is that proposal's deposit      *)
PaysOneDeposit ==
    LET p == result'.proposal_id
    IN  /\ result'.op \in {"execute", "close"}
        /\ p \in DOMAIN proposals
        /\ proposals[p].status \notin Final
        /\ proposals'[p].status \in Final
        /\ bal["module"] - bal'["module"] = DepositAmount(p)
        /\ refunds'[p] # <<>> /\ refunds[p] = <<>>
        /\ \A q \in DOMAIN proposals :
              q # p => /\ proposals'[q] = proposals[q]
                       /\ q \in DOMAIN refunds => refunds'[q] = refunds[q]

(* C32: the deposits of different proposals are independent and each is    *)
(* paid out at most once. The module holds exactly the deposits of the     *)
(* proposals not yet resolved; a step that pays out of the module is the   *)
(* Execute or Close that resolves one proposal, pays that proposal's       *)
(* deposit and leaves every other proposal and its deposit alone; a        *)
(* resolved proposal is not paid again; and a Vote moves no funds.         *)
C32_DepositsIndependent ==
    /\ [](/\ bal["module"] = Unresolved(DOMAIN proposals)
          /\ \A p \in DOMAIN proposals \cap DOMAIN refunds :
                /\ Len(refunds[p]) <= 1
                /\ refunds[p] # <<>> => /\ proposals[p].status \in Final
                                        /\ refunds[p][1].amount = DepositAmount(p)
          /\ \A p \in DOMAIN proposals, s \in Senders :
                /\ proposals[p].status \in Final
                      => execute_execute(s, p).err # "ok" /\ execute_close(s, p).err # "ok"
                /\ \A v \in VoteInputs :
                      \A i \in 1..Len(execute_vote(s, p, v).msgs) :
                         execute_vote(s, p, v).msgs[i].kind # "transfer")
    /\ [][/\ bal'["module"] < bal["module"] => PaysOneDeposit
          /\ result'.op = "vote" => bal' = bal /\ refunds' = refunds]_vars

(* one member has two proposals with a deposit each; the first has been    *)
(* executed and its deposit paid out, the second is open, voted on, and    *)
(* its deposit is with the module                                          *)
C32_Witness ==
    /\ proposal_count >= 2
    /\ proposals[1].proposer = proposals[2].proposer
    /\ proposals[1].status = "executed"
    /\ SumAmounts(refunds[1]) = DepositAmount(1)
    /\ DepositAmount(2) > 0
    /\ proposals[2].status = "open"
    /\ total(proposals[2].votes) > 0
    /\ refunds[2] = <<>>
    /\ bal["module"] >= DepositAmount(2)

(* C33: a proposal that has passed stays executable when its expiration    *)
(* goes by. In every state, Execute by a sender allowed to execute         *)
(* succeeds on a proposal whose status at the current block is Passed,     *)
(* expired or not, and writes Executed; and no step takes a proposal from  *)
(* Passed to Rejected, Closed or back to Open: the passing of a block      *)
(* leaves it Passed, and only Execute moves it on.                         *)
C33_PassedStaysExecutable ==
    /\ [](\A p \in DOMAIN proposals, s \in Senders :
             (Status(p) = "passed" /\ may_execute(s))
                => /\ execute_execute(s, p).err = "ok"
                   /\ execute_execute(s, p).proposals[p].status = "executed")
    /\ [][\A p \in DOMAIN proposals :
             Status(p) = "passed"
                => /\ current_status(proposals'[p], now') \in {"passed", "executed"}
                   /\ now' # now => current_status(proposals'[p], now') = "passed"
                   /\ current_status(proposals'[p], now') = "executed"
                         => result'.op = "execute" /\ result'.proposal_id = p]_vars

(* a proposal without revoting whose leading choice could no longer be     *)
(* caught up, so that it passed while the votes were cast, has been        *)
(* executed at a block past its expiration                                 *)
C33_Witness ==
    /\ result.op = "execute"
    /\ \E p \in DOMAIN proposals :
          /\ result.proposal_id = p
          /\ proposals[p].status = "executed"
          /\ ~proposals[p].allow_revoting
          /\ ~Tied(p)
          /\ is_choice_unbeatable(proposals[p], calculate_vote_result(proposals[p]).index)
          /\ total(proposals[p].votes) < proposals[p].total_power
          /\ Expired(p)

(* the registry as a handler's result leaves it *)
RegistryKept(out) == out.OWNER = OWNER /\ out.GROUPS = GROUPS

(* C34: in the named-groups registry Update, RemoveGroup and UpdateOwner   *)
(* succeed only for the current owner. For any other sender, whatever the  *)
(* arguments, each returns Unauthorized with the owner and the groups as   *)
(* they were; for the owner each succeeds on valid addresses, and          *)
(* UpdateOwner then stores the new owner and leaves the groups. The owner  *)
(* changes by a successful UpdateOwner only, and the groups by Update or   *)
(* RemoveGroup only, so that after a transfer the rights are with the new  *)
(* owner and the previous one has none.                                    *)
C34_OnlyTheOwner ==
    /\ [](\A sender \in Senders, group \in GroupNames, owner \in Senders \cup {""},
             addresses_to_add \in AddressLists, addresses_to_remove \in AddressLists :
             LET upd == execute_update(sender, group, addresses_to_add, addresses_to_remove)
                 rem == execute_remove_group(sender, group)
                 own == execute_update_owner(sender, owner)
             IN  /\ sender # OWNER
                       => /\ upd.err = "Unauthorized" /\ RegistryKept(upd)
                          /\ rem.err = "Unauthorized" /\ RegistryKept(rem)
                          /\ own.err = "Unauthorized" /\ RegistryKept(own)
                 /\ sender = OWNER
                       => /\ rem.err = "ok" /\ rem.OWNER = OWNER
                          /\ (all_valid(addresses_to_add) /\ all_valid(addresses_to_remove))
                                => upd.err = "ok" /\ upd.OWNER = OWNER
                          /\ addr_validate(owner)
                                => own.err = "ok" /\ own.OWNER = owner /\ own.GROUPS = GROUPS
                 /\ upd.err # "ok" => RegistryKept(upd)
                 /\ own.err # "ok" => RegistryKept(own))
    /\ [][/\ OWNER' # OWNER
                => /\ result'.op = "update_owner"
                   /\ result'.msgs[2] = Attribute("owner", OWNER')
                   /\ GROUPS' = GROUPS
          /\ GROUPS' # GROUPS
                => result'.op \in {"update", "remove_group"} /\ OWNER' = OWNER]_vars

(* the DAO, which instantiated the registry, has filled a group and handed *)
(* the registry to alice: alice may now remove the group and the DAO gets  *)
(* Unauthorized                                                            *)
C34_Witness ==
    /\ result.op = "update_owner"
    /\ OWNER = "alice"
    /\ <<"g1", "bob">> \in GROUPS.groups_to_addresses
    /\ execute_remove_group("alice", "g1").err = "ok"
    /\ execute_remove_group("alice", "g1").GROUPS # GROUPS
    /\ execute_remove_group("dao", "g1").err = "Unauthorized"
    /\ execute_update("dao", "g1", None, Some(<<"bob">>)).err = "Unauthorized"
    /\ execute_update_owner("dao", "dao").err = "Unauthorized"

(* the group has no address in the registry *)
NoSuchGroup(group) == \A a \in Senders : <<group, a>> \notin GROUPS.groups_to_addresses

(* the address is in no group of the registry *)
InNoGroup(addr) == \A g \in GroupNames : <<addr, g>> \notin GROUPS.addresses_to_groups

(* C35 as stated: ListAddresses for a group that does not exist returns a  *)
(* not-found error, whereas ListGroups for an address that is in no group  *)
(* returns an empty list and no error.                                     *)
C35_MissingGroupNotFound ==
    /\ \A group \in GroupNames, offset \in Offsets, limit \in Takes :
          NoSuchGroup(group) => query_list_addresses(group, offset, limit).err = "NotFound"
    /\ \A addr \in Senders, offset \in Offsets, limit \in Takes :
          InNoGroup(addr) => /\ query_list_groups(addr, offset, limit).err = "ok"
                             /\ query_list_groups(addr, offset, limit).groups = <<>>

(* the status of proposal p becomes ExecutionFailed in ps *)
Fails(ps, p) ==
    /\ p \in DOMAIN ps
    /\ ps[p].status = "execution_failed"
    /\ (p \in DOMAIN proposals => proposals[p].status # "execution_failed")

BallotsKept(bs, p) ==
    \A s \in Senders :
        /\ (<<p, s>> \in DOMAIN bs) = HasBallot(p, s)
        /\ HasBallot(p, s) => bs[<<p, s>>] = ballots[<<p, s>>]

(* C37: once the block has reached a proposal's expiration, or its status  *)
(* at the current block is no longer Open, whatever is stored, no Vote on  *)
(* it succeeds: a vote for one of its choices fails with NotOpen (one for  *)
(* a choice it does not have with InvalidVote), the store comes back as it *)
(* was, and no step changes the proposal's tally or its ballots.           *)
C37_NoVoteWhenNotOpen ==
    /\ [](\A p \in DOMAIN proposals :
             (Expired(p) \/ Status(p) # "open")
                => /\ Status(p) # "open"
                   /\ \A s \in Senders, v \in VoteInputs :
                         LET out == execute_vote(s, p, v)
                         IN  /\ out.err = IF vote_in_range(proposals[p], v)
                                          THEN "NotOpen" ELSE "InvalidVote"
                             /\ out.msgs = <<>>
                             /\ out.proposals = proposals
                             /\ out.ballots = ballots)
    /\ [][\A p \in DOMAIN proposals :
             (Expired(p) \/ Status(p) # "open")
                => /\ p \in DOMAIN proposals'
                   /\ proposals'[p].votes = proposals[p].votes
                   /\ BallotsKept(ballots', p)
                   /\ result'.op = "vote" => result'.proposal_id # p]_vars

(* a proposal stored as Open has passed at the current block, before its   *)
(* expiration, and a vote of a member for one of its choices is refused    *)
(* with NotOpen                                                            *)
C37_Witness ==
    \E p \in DOMAIN proposals :
        /\ proposals[p].status = "open"
        /\ ~Expired(p)
        /\ Status(p) = "passed"
        /\ PowerAtCreation("alice", p) > 0
        /\ execute_vote("alice", p, 0).err = "NotOpen"

(* C38: Close has no sender restriction. On a proposal whose status at the *)
(* current block is Rejected, Close succeeds for every sender, with or     *)
(* without voting power and whether or not only members may execute, with  *)
(* the same result for all of them: the proposal is written Closed and the *)
(* deposit, if one is held, is released by a transfer the module can pay.  *)
C38_AnyoneCloses ==
    \A p \in DOMAIN proposals :
        Status(p) = "rejected"
           => \A s \in Senders :
                 LET out == execute_close(s, p)
                 IN  /\ out.err = "ok"
                     /\ out.proposals[p].status = "closed"
                     /\ out = execute_close("dao", p)
                     /\ SumAmounts(Refunds(out.msgs)) = DepositAmount(p)
                     /\ run_transfers(bal, out.msgs).ok

(* a rejected proposal with a deposit, where only members may execute: an  *)
(* address without voting power, refused on Execute as not a member,       *)
(* closes it and releases the deposit                                      *)
C38_Witness ==
    \E p \in DOMAIN proposals :
        /\ Status(p) = "rejected"
        /\ config.only_members_execute
        /\ get_voting_power("dao2", now) = 0
        /\ PowerAtCreation("dao2", p) = 0
        /\ execute_execute("dao2", p).err = "Unauthorized"
        /\ DepositAmount(p) > 0
        /\ execute_close("dao2", p).err = "ok"
        /\ Refunds(execute_close("dao2", p).msgs) # <<>>

(* what a proposal takes from the configuration when it is created *)
Terms(prop) ==
    [allow_revoting |-> prop.allow_revoting,
     voting_strategy |-> prop.voting_strategy,
     min_voting_period |-> prop.min_voting_period,
     expiration |-> prop.expiration]

(* C39: a proposal's revoting rule, voting strategy and voting periods are *)
(* those of the configuration under which it was created. A new proposal   *)
(* copies them from the configuration of the moment; no step changes them  *)
(* on an existing proposal, and UpdateConfig writes no proposal and no     *)
(* ballot; and a second vote on an open proposal is handled by the         *)
(* proposal's own revoting rule, whatever the configuration says now:      *)
(* AlreadyVoted without revoting, AlreadyCast or a replaced ballot with.   *)
C39_TermsFixedAtCreation ==
    /\ [](/\ \A sender \in Senders, msg \in ConfigMsgs :
                /\ execute_update_config(sender, msg).proposals = proposals
                /\ execute_update_config(sender, msg).ballots = ballots
          /\ \A sender \in Senders, options \in OptionInputs :
                Terms(new_proposal(sender, options)) =
                    [allow_revoting |-> config.allow_revoting,
                     voting_strategy |-> config.voting_strategy,
                     min_voting_period |->
                        IF is_some(config.min_voting_period)
                        THEN Some(after(unwrap(config.min_voting_period), now)) ELSE None,
                     expiration |-> after(config.max_voting_period, now)]
          /\ \A p \in DOMAIN proposals, s \in Senders, v \in VoteInputs :
                (HasBallot(p, s) /\ Status(p) = "open" /\ vote_in_range(proposals[p], v))
                    => execute_vote(s, p, v).err =
                          IF ~proposals[p].allow_revoting THEN "AlreadyVoted"
                          ELSE IF ballots[<<p, s>>].vote = v THEN "AlreadyCast"
                          ELSE "ok")
    /\ [][/\ \A p \in DOMAIN proposals :
                /\ p \in DOMAIN proposals'
                /\ Terms(proposals'[p]) = Terms(proposals[p])
          /\ result'.op = "update_config"
                => proposals' = proposals /\ ballots' = ballots]_vars

(* the configuration has been updated and now forbids revoting, with       *)
(* another strategy and other periods, while an open proposal made under   *)
(* the earlier one still lets its voter move to another choice             *)
C39_Witness ==
    /\ result.op = "update_config"
    /\ ~config.allow_revoting
    /\ \E p \in DOMAIN proposals :
          /\ proposals[p].allow_revoting
          /\ proposals[p].voting_strategy # config.voting_strategy
          /\ proposals[p].expiration # after(config.max_voting_period, proposals[p].start_height)
          /\ Status(p) = "open"
          /\ HasBallot(p, "alice")
          /\ execute_vote("alice", p, 1 - ballots[<<p, "alice">>].vote).err = "ok"

(* the deposit of proposal p goes back to the proposer when p has status st *)
ToProposer(p, st) ==
    LET policy == unwrap(proposals[p].deposit_info).refund_policy
    IN  \/ policy = "Always"
        \/ policy = "OnlyPassed" /\ st \in {"executed", "execution_failed"}

(* C40: a deposit that does not go back to the proposer goes to the DAO of *)
(* the configuration in force at the Execute or Close that pays it. The    *)
(* refund that Execute builds under Never, and Close under Never or        *)
(* OnlyPassed, is addressed to config.dao of the moment; and every step    *)
(* that pays a deposit out pays it to the proposer where the policy says   *)
(* so and else to the DAO address that the configuration holds then,       *)
(* also when an UpdateConfig has changed it since the proposal was made.   *)
C40_ForfeitToCurrentDao ==
    /\ [](\A p \in DOMAIN proposals, s \in Senders :
             is_some(proposals[p].deposit_info)
                => /\ execute_execute(s, p).err = "ok"
                         => /\ Len(Refunds(execute_execute(s, p).msgs)) = 1
                            /\ Refunds(execute_execute(s, p).msgs)[1].to =
                                  IF ToProposer(p, "executed")
                                  THEN proposals[p].proposer ELSE config.dao
                   /\ execute_close(s, p).err = "ok"
                         => /\ Len(Refunds(execute_close(s, p).msgs)) = 1
                            /\ Refunds(execute_close(s, p).msgs)[1].to =
                                  IF ToProposer(p, "closed")
                                  THEN proposals[p].proposer ELSE config.dao)
    /\ [][\A p \in DOMAIN proposals \cap DOMAIN refunds :
             refunds'[p] # refunds[p]
                => /\ config' = config
                   /\ result'.op \in {"execute", "close"}
                   /\ refunds'[p][Len(refunds'[p])].to =
                         IF ToProposer(p, proposals'[p].status)
                         THEN proposals[p].proposer ELSE config.dao]_vars

(* a proposal made with a deposit under Never while the DAO that           *)
(* instantiated the module was configured has been resolved after an       *)
(* UpdateConfig named another DAO: the other DAO has the deposit, the      *)
(* first has nothing                                                       *)
C40_Witness ==
    /\ result.op \in {"execute", "close"}
    /\ config.dao = "dao2"
    /\ \E p \in DOMAIN proposals :
          /\ result.proposal_id = p
          /\ proposals[p].deposit_info = Deposit(1, "Never")
          /\ proposals[p].proposer # "dao2"
          /\ Len(refunds[p]) = 1
          /\ refunds[p][1].to = "dao2"
          /\ bal["dao2"] = InitialBalance["dao2"] + 1
          /\ bal["dao"] = InitialBalance["dao"]

====
